---------------------------- MODULE Spec2Model ----------------------------
(***************************************************************************)
(* Model of the event store (components/runtime_hooks.py, RuntimeHooks),   *)
(* of the batch controller (components/batch_processor.py,                 *)
(* BatchProcessor), of the clients' emit_hook and of the cache             *)
(* (utils/cache_manager.py, CacheManager) of flow-bundles.                 *)
(*                                                                         *)
(* Several families of specifications share the module:                    *)
(*   SpecEmit, SpecHooks  the RuntimeHooks store (emit_hook, cleanup)      *)
(*   SpecListen           listeners of emit_hook                           *)
(*   SpecQuery            filter_hooks and get_hook_summary                *)
(*   SpecAgg, SpecAggOps  aggregate_hooks_by_session, a pure function      *)
(*   SpecProcess          process_hooks and get_realtime_feed over time    *)
(*   SpecBatch            one BatchProcessor.process_batch run             *)
(*   SpecBatchRuns        repeated runs of one BatchProcessor instance     *)
(*   SpecEnable           emit_hook of the clients and of BatchProcessor   *)
(*   SpecCache            the calls of a CacheManager                      *)
(* Each specification keeps the variables of the other families at their   *)
(* constructor values.                                                     *)
(*                                                                         *)
(* Time is counted in whole minutes (datetime.now() is the variable now;   *)
(* for the cache, time.time() in whole seconds);                           *)
(* uuid4() ids are drawn from a counter, which keeps them unique.          *)
(***************************************************************************)
EXTENDS Integers, Sequences, FiniteSets, TLC

VARIABLES
    \* ---- RuntimeHooks ----
    hook_storage,       \* self.hook_storage: deque(maxlen=max_hooks), oldest first
    session_hooks,      \* self.session_hooks: session id -> list of hooks
    last_cleanup,       \* self.last_cleanup
    max_hooks,          \* input max_hooks
    retention_minutes,  \* input retention_minutes
    auto_cleanup,       \* input auto_cleanup
    now,                \* datetime.now(), in minutes
    emitted,            \* history: every hook emit_hook created, in emission order
    last_op,            \* history: the last RuntimeHooks operation that ran
    hook_listeners,     \* self.hook_listeners: the callbacks, in registration order
    real_time_updates,  \* input real_time_updates
    notified,           \* history: every listener call, in call order
    hook_mode,          \* input hook_mode
    hook_input,         \* input hook_input
    filter_type,        \* input filter_type
    component_filter,   \* input component_filter
    returned,           \* what the last RuntimeHooks method that returns a value returned
    summaries,          \* history: the get_hook_summary calls, as (hooks, summary)
    \* ---- aggregate_hooks_by_session ----
    agg_input,          \* the hooks list handed to aggregate_hooks_by_session
    agg_output,         \* the session_data it returned on its last call
    \* ---- BatchProcessor ----
    batch_data,         \* input batch_data: the items
    batch_size,         \* input batch_size
    timeout_per_item,   \* input timeout_per_item
    delay_between_batches, \* input delay_between_batches
    stop_on_error,      \* input stop_on_error
    emit_progress_hooks,\* input emit_progress_hooks
    batch_operation,    \* input batch_operation
    pc,                 \* where process_batch is
    loop_i,             \* the chunk loop's i (0-based start index of the chunk)
    task,               \* per item index: the state of its process_item_with_timeout task
    task_result,        \* per item index: what its task returned to gather
    all_results,        \* local all_results
    progress_hooks,     \* self.progress_hooks
    hook_calls,         \* history: every emit_progress_hook call (hook_type, data)
    batch_results,      \* self.batch_results
    batch_errors,       \* self.batch_errors
    batch_summary,      \* self.batch_summary
    result,             \* what process_batch returned (Data.data), or NoResult
    invoked,            \* history: item indices whose processor body was entered
    calls,              \* history: per item index, the calls process_func(item, index)
    finished,           \* history: the item indices in the order their tasks ended
    fault,              \* history: str(e) of the exception process_batch caught, or None
    previous,           \* history: the instance as the current process_batch call found it
    \* ---- GoHighLevelClient / AssistableAIClient ----
    client_component,   \* the component name the client writes into its hooks
    emit_hooks,         \* input emit_hooks
    client_hooks,       \* self.hooks
    client_calls,       \* history: the emit_hook calls of the client and what they returned
    \* ---- CacheManager ----
    max_size,           \* self.max_size
    default_ttl,        \* self.default_ttl
    cache,              \* self.cache: the entries in the order of the OrderedDict
    tag_index,          \* self.tag_index: tag -> list of keys
    stats,              \* self.stats
    cache_pc,           \* where the CacheManager call in progress is
    set_call,           \* the arguments of the set call in progress
    recency,            \* history: the keys in the order of their last use
    cache_calls         \* history: the number of CacheManager calls made

lvars == <<hook_listeners, real_time_updates>>
qvars == <<hook_mode, hook_input, filter_type, component_filter>>
hvars == <<hook_storage, session_hooks, last_cleanup, max_hooks, retention_minutes,
           auto_cleanup, now, emitted, last_op, lvars, notified, qvars, returned,
           summaries>>
avars == <<agg_input, agg_output>>
bvars == <<batch_data, batch_size, timeout_per_item, delay_between_batches,
           stop_on_error, emit_progress_hooks, batch_operation, pc, loop_i, task,
           task_result, all_results, progress_hooks, hook_calls, batch_results,
           batch_errors, batch_summary, result, invoked, calls, finished,
           fault, previous>>
cvars == <<client_component, emit_hooks, client_hooks, client_calls>>
kvars == <<max_size, default_ttl, cache, tag_index, stats, cache_pc, set_call,
           recency, cache_calls>>
xvars == <<cvars, kvars>>
vars == <<hvars, avars, bvars, xvars>>

----------------------------------------------------------------------------
(* Bounds of the model *)

MaxCap == 2          \* max_hooks is drawn from 1..MaxCap
MaxEmits == 3        \* emit_hook calls per behaviour
MaxTime == 2         \* the clock stops at MaxTime minutes
MaxRetention == 1    \* retention_minutes is drawn from 1..MaxRetention
MaxListeners == 2    \* add_hook_listener calls per behaviour

----------------------------------------------------------------------------
(* Helpers on sequences and maps *)

Range(s) == {s[k] : k \in DOMAIN s}

Min(a, b) == IF a <= b THEN a ELSE b

\* the last n elements of s (all of s when it is shorter)
LastN(s, n) == IF Len(s) <= n THEN s ELSE SubSeq(s, Len(s) - n + 1, Len(s))

\* a dict with no keys
EmptyMap == [x \in {} |-> <<>>]

----------------------------------------------------------------------------
(* RuntimeHooks *)

\* session_id=None (or any falsy value) of emit_hook
NoSession == ""
SessionIds == {"s1", "s2"}
EmitTypes == {"pre_task", "error"}

\* collections.deque(maxlen=m).append(x) on a plain list: no bound
DequeAppendUnbounded(q, x, m) == Append(q, x)

\* collections.deque(maxlen=m).append(x): the oldest element is dropped when full
DequeAppend(q, x, m) == LastN(Append(q, x), m)

\* the hook dict emit_hook builds
NewHook(hook_type, component, data, session_id) ==
    [id |-> Len(emitted) + 1,
     hook_type |-> hook_type,
     component |-> component,
     timestamp |-> now,
     data |-> data,
     session_id |-> IF session_id # NoSession THEN session_id ELSE "default",
     status |-> "active"]

\* self.session_hooks after "if session_id: ... .append(hook)"
IndexHook(index, session_id, hook) ==
    IF session_id = NoSession THEN index
    ELSE [s \in DOMAIN index \cup {session_id} |->
            IF s = session_id
            THEN (IF s \in DOMAIN index THEN Append(index[s], hook) ELSE <<hook>>)
            ELSE index[s]]

\* what a registered callback does when it is called
Listeners == {"ok", "raise"}

\* RuntimeHooks.add_hook_listener
AddHookListener(callback) ==
    /\ Len(hook_listeners) < MaxListeners
    /\ hook_listeners' = Append(hook_listeners, callback)
    /\ last_op' = "add_hook_listener"
    /\ UNCHANGED <<hook_storage, session_hooks, last_cleanup, max_hooks,
                   retention_minutes, auto_cleanup, now, emitted, real_time_updates,
                   notified, qvars, returned, summaries>>
    /\ UNCHANGED <<avars, bvars, xvars>>

\* the loop over the listeners without try/except: it ends at the first
\* listener that raises
CalledUntilFault(i) == \A j \in 1 .. (i - 1) : hook_listeners[j] # "raise"

\* "for listener in self.hook_listeners: try: listener(hook) except Exception":
\* the i-th listener is called whatever the earlier ones did
ListenerCalled(i) == i \in DOMAIN hook_listeners

\* lines 113-119: the listener calls of one emit_hook, in call order; storage
\* is self.hook_storage at the time of the calls
Notify(hook, storage) ==
    IF real_time_updates
    THEN SelectSeq([i \in DOMAIN hook_listeners |->
                      [listener |-> i, hook |-> hook,
                       stored |-> hook \in Range(storage),
                       raised |-> hook_listeners[i] = "raise"]],
                   LAMBDA n : ListenerCalled(n.listener))
    ELSE <<>>

\* RuntimeHooks.emit_hook
EmitHook(hook_type, component, data, session_id) ==
    /\ Len(emitted) < MaxEmits
    /\ LET hook == NewHook(hook_type, component, data, session_id) IN
        /\ hook_storage' = DequeAppend(hook_storage, hook, max_hooks)
        /\ session_hooks' = IndexHook(session_hooks, session_id, hook)
        /\ emitted' = Append(emitted, hook)
        /\ notified' = notified \o Notify(hook, hook_storage')
        /\ returned' = hook
    /\ last_op' = "emit"
    /\ UNCHANGED <<last_cleanup, max_hooks, retention_minutes, auto_cleanup, now,
                   lvars, qvars, summaries>>
    /\ UNCHANGED <<avars, bvars, xvars>>

\* a cleanup that drops the oldest hook, whatever its age
DropOldest(hooks, cutoff) == IF hooks = <<>> THEN hooks ELSE Tail(hooks)

\* the list comprehension of cleanup_old_hooks: hooks newer than the cutoff
Fresh(hooks, cutoff) == SelectSeq(hooks, LAMBDA h : h.timestamp > cutoff)

\* the "Clean session hooks" loop without "del self.session_hooks[session_id]"
CleanSessionsKeepEmpty(index, cutoff) ==
    [s \in DOMAIN index |-> Fresh(index[s], cutoff)]

\* self.session_hooks after the "Clean session hooks" loop
CleanSessions(index, cutoff) ==
    LET kept == {s \in DOMAIN index : Fresh(index[s], cutoff) # <<>>}
    IN  [s \in kept |-> Fresh(index[s], cutoff)]

\* RuntimeHooks.cleanup_old_hooks
CleanupOldHooks ==
    /\ IF ~auto_cleanup
       THEN /\ last_op' = "cleanup_skipped"
            /\ UNCHANGED <<hook_storage, session_hooks, last_cleanup>>
       ELSE LET cutoff == now - retention_minutes IN
            /\ hook_storage' = LastN(Fresh(hook_storage, cutoff), max_hooks)
            /\ session_hooks' = CleanSessions(session_hooks, cutoff)
            /\ last_cleanup' = now
            /\ last_op' = "cleanup"
    /\ UNCHANGED <<max_hooks, retention_minutes, auto_cleanup, now, emitted, lvars,
                   notified, qvars, returned, summaries>>
    /\ UNCHANGED <<avars, bvars, xvars>>

\* time passes: datetime.now() advances by one minute
Tick ==
    /\ now < MaxTime
    /\ now' = now + 1
    /\ UNCHANGED <<hook_storage, session_hooks, last_cleanup, max_hooks,
                   retention_minutes, auto_cleanup, emitted, last_op, lvars,
                   notified, qvars, returned, summaries>>
    /\ UNCHANGED <<avars, bvars, xvars>>

----------------------------------------------------------------------------
(* aggregate_hooks_by_session *)

MaxAggLen == 3       \* length of the hooks list handed to the aggregation
MaxAggTime == 1      \* timestamps of those hooks are drawn from 0..MaxAggTime

\* a key the dict does not have
Absent == "<absent>"

\* None in the place of a timestamp
NoTime == -1

\* dict.get(key, default) on a field that may be absent
Get(value, default) == IF value = Absent THEN default ELSE value

AggTypes == {"pre_task", "start_task", "end_run", "error"}
AggSessions == {"s1", Absent}

\* hooks with several action values in their payloads
AggOpHooks ==
    [id : {0}, hook_type : {"pre_task", "error"}, component : {"c"}, timestamp : {0, 1},
     data : {[action |-> "a1"], [action |-> "a2"]}, session_id : AggSessions,
     status : {"active"}]

\* the hooks a caller may hand to aggregate_hooks_by_session
AggHooks ==
    [id : {0}, hook_type : AggTypes, component : {"c"}, timestamp : 0..MaxAggTime,
     data : {[action |-> "a1"]}, session_id : AggSessions, status : {"active"}]

\* lines 246-250 without the guard on end_run: end_run overwrites error
NextStatusOverwrite(status, hook_type) ==
    IF hook_type = "error" THEN "error"
    ELSE IF hook_type = "end_run" THEN "completed"
    ELSE status

\* lines 246-250 without the end_run branch: a session never completes
NextStatusNoCompletion(status, hook_type) ==
    IF hook_type = "error" THEN "error" ELSE status

\* the status update of the aggregation loop
NextStatus(status, hook_type) ==
    IF hook_type = "error" THEN "error"
    ELSE IF hook_type = "end_run" /\ status # "error" THEN "completed"
    ELSE status

\* the session record created on a session's first hook
NewSessionInfo(session_id, hook) ==
    [session_id |-> session_id, hooks |-> <<>>, start_time |-> hook.timestamp,
     end_time |-> hook.timestamp, status |-> "active", operations |-> <<>>,
     errors |-> <<>>]

\* the append of line 244 without the test of line 243
AddOperationAlways(operations, operation) == Append(operations, operation)

\* lines 243-244: "if operation not in operations: operations.append(operation)"
AddOperation(operations, operation) ==
    IF operation \notin Range(operations) THEN Append(operations, operation)
    ELSE operations

\* one iteration of the loop over hooks: session_info after the hook
UpdateSessionInfo(info, hook) ==
    LET operation == Get(hook.data.action, "unknown") IN
    [info EXCEPT
       !.hooks = Append(@, hook),
       !.start_time = IF hook.timestamp < @ THEN hook.timestamp ELSE @,
       !.end_time = IF hook.timestamp > @ THEN hook.timestamp ELSE @,
       !.operations = IF hook.hook_type = "pre_task" THEN AddOperation(@, operation)
                      ELSE @,
       !.errors = IF hook.hook_type = "error" THEN Append(@, hook.data) ELSE @,
       !.status = NextStatus(@, hook.hook_type)]

\* session_data after one iteration of the loop
AggStep(session_data, hook) ==
    LET sid == Get(hook.session_id, "default")
        info == IF sid \in DOMAIN session_data THEN session_data[sid]
                ELSE NewSessionInfo(sid, hook)
    IN  [s \in DOMAIN session_data \cup {sid} |->
            IF s = sid THEN UpdateSessionInfo(info, hook) ELSE session_data[s]]

RECURSIVE AggregateFrom(_, _, _)
\* the loop "for hook in hooks" from position k on
AggregateFrom(hooks, k, session_data) ==
    IF k > Len(hooks) THEN session_data
    ELSE AggregateFrom(hooks, k + 1, AggStep(session_data, hooks[k]))

\* RuntimeHooks.aggregate_hooks_by_session
AggregateHooksBySession(hooks) == AggregateFrom(hooks, 1, EmptyMap)

\* the caller's event list grows by one hook
AggExtend(hook) ==
    /\ Len(agg_input) < MaxAggLen
    /\ agg_input' = Append(agg_input, hook)
    /\ UNCHANGED agg_output
    /\ UNCHANGED <<hvars, bvars, xvars>>

\* a call of aggregate_hooks_by_session on the caller's list
AggregateCall ==
    /\ agg_output' = AggregateHooksBySession(agg_input)
    /\ UNCHANGED agg_input
    /\ UNCHANGED <<hvars, bvars, xvars>>

----------------------------------------------------------------------------
(* filter_hooks and get_hook_summary *)

MaxQueryLen == 2     \* length of the hooks list handed to filter and summary
MaxSummaries == 2    \* get_hook_summary calls per behaviour

\* the hooks a caller may hand to filter_hooks and get_hook_summary; a key the
\* hook dict does not have holds Absent
QueryHooks ==
    [id : {0}, hook_type : {"pre_task", Absent}, component : {"c", "d"},
     timestamp : {0, 1}, data : {[action |-> "a1"]},
     session_id : {"s1", Absent}, status : {"active"}]

\* the values of the filter inputs the model draws
FilterTypes == {"", "pre_task"}
ComponentFilters == {"", "c"}

\* a filter that ignores the component
FilterHooksByTypeOnly(hooks) ==
    IF filter_type # "" THEN SelectSeq(hooks, LAMBDA h : h.hook_type = filter_type)
    ELSE hooks

\* RuntimeHooks.filter_hooks
FilterHooks(hooks) ==
    LET by_type == IF filter_type # ""
                   THEN SelectSeq(hooks, LAMBDA h : h.hook_type = filter_type)
                   ELSE hooks
    IN  IF component_filter # ""
        THEN SelectSeq(by_type, LAMBDA h : h.component = component_filter)
        ELSE by_type

RECURSIVE CountFrom(_, _, _, _, _)
\* the counting loops of get_hook_summary from position k on:
\* counts[value] = counts.get(value, 0) + 1 with value = hook.get(key, default)
CountFrom(hooks, k, key, default, counts) ==
    IF k > Len(hooks) THEN counts
    ELSE LET value == Get(hooks[k][key], default)
             next == [v \in DOMAIN counts \cup {value} |->
                        IF v = value
                        THEN (IF v \in DOMAIN counts THEN counts[v] ELSE 0) + 1
                        ELSE counts[v]]
         IN  CountFrom(hooks, k + 1, key, default, next)

\* {} of Python: a dict with no keys
EmptyCounts == [v \in {} |-> 0]

\* the timestamp of the last hook in the place of the maximum
LastTimestamp(hooks, k) == hooks[k].timestamp

RECURSIVE MaxTimestamp(_, _)
\* max(hook["timestamp"] for hook in hooks) over the first k hooks, k >= 1
MaxTimestamp(hooks, k) ==
    IF k = 1 THEN hooks[1].timestamp
    ELSE LET m == MaxTimestamp(hooks, k - 1)
         IN  IF hooks[k].timestamp > m THEN hooks[k].timestamp ELSE m

\* a summary whose total also counts the summaries made before
SummaryCounting(hooks) ==
    [total_hooks |-> Len(hooks) + Len(summaries)]

\* RuntimeHooks.get_hook_summary; session_list, a list made from a set, is
\* kept as the set
GetHookSummary(hooks) ==
    IF hooks = <<>>
    THEN [total_hooks |-> 0, by_type |-> EmptyCounts, by_component |-> EmptyCounts,
          by_status |-> EmptyCounts, latest_timestamp |-> NoTime, sessions |-> 0]
    ELSE LET sessions == {Get(hooks[k].session_id, "default") : k \in DOMAIN hooks}
         IN  [total_hooks |-> Len(hooks),
              by_type |-> CountFrom(hooks, 1, "hook_type", "unknown", EmptyCounts),
              by_component |-> CountFrom(hooks, 1, "component", "unknown", EmptyCounts),
              by_status |-> CountFrom(hooks, 1, "status", "unknown", EmptyCounts),
              latest_timestamp |-> MaxTimestamp(hooks, Len(hooks)),
              sessions |-> Cardinality(sessions),
              session_list |-> sessions]

\* a call of filter_hooks on the caller's list
FilterCall ==
    /\ returned' = FilterHooks(agg_input)
    /\ last_op' = "filter_hooks"
    /\ UNCHANGED <<hook_storage, session_hooks, last_cleanup, max_hooks,
                   retention_minutes, auto_cleanup, now, emitted, lvars, notified,
                   qvars, summaries>>
    /\ UNCHANGED <<avars, bvars, xvars>>

\* a call of get_hook_summary on the caller's list
SummaryCall ==
    /\ Len(summaries) < MaxSummaries
    /\ returned' = GetHookSummary(agg_input)
    /\ summaries' = Append(summaries, [hooks |-> agg_input, summary |-> returned'])
    /\ last_op' = "get_hook_summary"
    /\ UNCHANGED <<hook_storage, session_hooks, last_cleanup, max_hooks,
                   retention_minutes, auto_cleanup, now, emitted, lvars, notified,
                   qvars>>
    /\ UNCHANGED <<avars, bvars, xvars>>

\* the caller's list of filter and summary grows by one hook
QueryExtend(hook) == Len(agg_input) < MaxQueryLen /\ AggExtend(hook)

----------------------------------------------------------------------------
(* process_hooks and get_realtime_updates *)

MaxClock == 11       \* the jumps of the clock stop at MaxClock minutes

\* timedelta(minutes=10) of process_hooks
CleanupInterval == 10
\* timedelta(minutes=5) of get_realtime_updates
RealtimeWindow == 5

HookModes == {"monitor", "emit", "filter", "aggregate", "other"}

\* hook_input: nothing, or a dict with some of the keys of a hook
HookInputs ==
    {EmptyMap,
     [hook_type |-> "pre_task", component |-> Absent, data |-> Absent,
      session_id |-> "s1"]}

\* the cleanup test of process_hooks with ">=" in the place of ">"
CleanupDueAtInterval == now - last_cleanup >= CleanupInterval

\* "if datetime.now() - self.last_cleanup > timedelta(minutes=10)"
CleanupDue == now - last_cleanup > CleanupInterval

\* the list of get_realtime_updates returned as it was collected
Unsorted(hooks) == hooks

\* sorted(hooks, key=lambda x: x["timestamp"], reverse=True): a stable sort,
\* hooks of one timestamp keep their order
SortedNewestFirst(hooks) ==
    LET rank(i) == Cardinality({j \in DOMAIN hooks :
                                  \/ hooks[j].timestamp > hooks[i].timestamp
                                  \/ /\ hooks[j].timestamp = hooks[i].timestamp
                                     /\ j < i}) + 1
    IN  [r \in DOMAIN hooks |-> hooks[CHOOSE i \in DOMAIN hooks : rank(i) = r]]

\* RuntimeHooks.get_realtime_updates
GetRealtimeUpdates == SortedNewestFirst(Fresh(hook_storage, now - RealtimeWindow))

\* RuntimeHooks.get_realtime_feed
GetRealtimeFeed ==
    /\ returned' = [realtime_hooks |-> GetRealtimeUpdates]
    /\ last_op' = "get_realtime_feed"
    /\ UNCHANGED <<hook_storage, session_hooks, last_cleanup, max_hooks,
                   retention_minutes, auto_cleanup, now, emitted, lvars, notified,
                   qvars, summaries>>
    /\ UNCHANGED <<avars, bvars, xvars>>

\* hook_data.get(key, default) on the hook_input dict
InputGet(key, default) ==
    IF key \in DOMAIN hook_input THEN Get(hook_input[key], default) ELSE default

\* the emit branch taken for the mode alone
EmitModeOnly == hook_mode = "emit"

\* line 273: 'if self.hook_mode == "emit" and self.hook_input'
EmitRequested == hook_mode = "emit" /\ hook_input # EmptyMap

\* RuntimeHooks.get_summary
HooksSummary ==
    /\ returned' = GetHookSummary(FilterHooks(hook_storage))
    /\ last_op' = "get_summary"
    /\ UNCHANGED <<hook_storage, session_hooks, last_cleanup, max_hooks,
                   retention_minutes, auto_cleanup, now, emitted, lvars, notified,
                   qvars, summaries>>
    /\ UNCHANGED <<avars, bvars, xvars>>

\* RuntimeHooks.get_status
GetStatus ==
    /\ returned' = [total_hooks_stored |-> Len(hook_storage),
                    active_sessions |-> Cardinality(DOMAIN session_hooks),
                    last_cleanup |-> last_cleanup,
                    retention_minutes |-> retention_minutes,
                    max_hooks |-> max_hooks,
                    real_time_enabled |-> real_time_updates,
                    listeners_count |-> Len(hook_listeners)]
    /\ last_op' = "get_status"
    /\ UNCHANGED <<hook_storage, session_hooks, last_cleanup, max_hooks,
                   retention_minutes, auto_cleanup, now, emitted, lvars, notified,
                   qvars, summaries>>
    /\ UNCHANGED <<avars, bvars, xvars>>

\* RuntimeHooks.process_hooks: the cleanup pass when it is due, then the mode
ProcessHooks ==
    LET cleaned == CleanupDue /\ auto_cleanup
        cutoff == now - retention_minutes
        storage == IF cleaned THEN LastN(Fresh(hook_storage, cutoff), max_hooks)
                   ELSE hook_storage
        index == IF cleaned THEN CleanSessions(session_hooks, cutoff)
                 ELSE session_hooks
        emits == EmitRequested
        session_id == InputGet("session_id", NoSession)
        hook == NewHook(InputGet("hook_type", "custom"),
                        InputGet("component", "runtime_hooks"),
                        InputGet("data", EmptyMap), session_id)
        filtered_hooks == FilterHooks(storage)
    IN  /\ emits => Len(emitted) < MaxEmits
        /\ last_cleanup' = IF cleaned THEN now ELSE last_cleanup
        /\ IF emits
           THEN /\ hook_storage' = DequeAppend(storage, hook, max_hooks)
                /\ session_hooks' = IndexHook(index, session_id, hook)
                /\ emitted' = Append(emitted, hook)
                /\ notified' = notified \o Notify(hook, hook_storage')
                /\ returned' = [emitted_hook |-> hook]
           ELSE /\ hook_storage' = storage
                /\ session_hooks' = index
                /\ returned' =
                      CASE hook_mode = "monitor" -> [hooks |-> filtered_hooks]
                        [] hook_mode = "filter" -> [filtered_hooks |-> filtered_hooks]
                        [] hook_mode = "aggregate" ->
                             [aggregated_sessions |->
                                AggregateHooksBySession(filtered_hooks)]
                        [] OTHER -> [error |-> "Unknown hook mode: " \o hook_mode]
                /\ UNCHANGED <<emitted, notified>>
        /\ last_op' = IF cleaned THEN "process_hooks_cleanup"
                      ELSE IF CleanupDue THEN "process_hooks_cleanup_skipped"
                      ELSE "process_hooks"
        /\ UNCHANGED <<max_hooks, retention_minutes, auto_cleanup, now, lvars, qvars,
                       summaries>>
        /\ UNCHANGED <<avars, bvars, xvars>>

\* time passes: datetime.now() advances by a window or by an interval
Elapse ==
    \E d \in {RealtimeWindow, CleanupInterval} :
        /\ now + d <= MaxClock
        /\ now' = now + d
        /\ UNCHANGED <<hook_storage, session_hooks, last_cleanup, max_hooks,
                       retention_minutes, auto_cleanup, emitted, last_op, lvars,
                       notified, qvars, returned, summaries>>
        /\ UNCHANGED <<avars, bvars, xvars>>

----------------------------------------------------------------------------
(* BatchProcessor: inputs *)

MaxItems == 3        \* batch_data holds 0..MaxItems items
MaxBatchSize == 2    \* batch_size is drawn from -1..MaxBatchSize
MaxTimeout == 1      \* timeout_per_item is drawn from 0..MaxTimeout
MaxDelay == 1        \* delay_between_batches is drawn from -1..MaxDelay

\* What the item processor does with an item (the item's value decides it):
\*   "ok"            returns a value before the deadline
\*   "raise"         raises an Exception (ValueError: a missing field)
\*   "raise_timeout" raises TimeoutError itself (asyncio.TimeoutError is the
\*                   builtin TimeoutError) before the deadline
\*   "slow"          is still running when timeout_per_item elapses
\* BaseExceptions that are no Exception (CancelledError, KeyboardInterrupt) are
\* outside the model.
Behaviours == {"ok", "raise", "raise_timeout", "slow"}

RECURSIVE SeqsUpTo(_, _)
\* the sequences over S of length 0..n
SeqsUpTo(S, n) ==
    IF n = 0 THEN {<<>>}
    ELSE LET shorter == SeqsUpTo(S, n - 1)
         IN  shorter \cup {Append(s, x) : s \in {t \in shorter : Len(t) = n - 1}, x \in S}

\* the options of the batch_operation dropdown the model draws from
Operations == {"bulk_ai_calls", "bulk_message_send"}

\* the keys of process_functions
ProcessFunctions == {"bulk_create_assistants", "bulk_ai_calls", "bulk_contact_lookup"}

\* self.session_id, a uuid4 drawn by the constructor
BatchSessionId == "batch-session"

\* Python's None
None == "None"
NoneTime == -1

NoResult == [pending |-> TRUE]

\* previous before the first process_batch call: what __init__ set
NoCallYet ==
    [runs |-> 0, hook_calls |-> <<>>, progress_hooks |-> <<>>, batch_results |-> <<>>,
     batch_errors |-> <<>>, batch_summary |-> EmptyMap]

\* the 0-based indices of batch_items
Indices == 0 .. (Len(batch_data) - 1)

\* batch_items[k]
Item(k) == batch_data[k + 1]

\* Python's a // b for b # 0 (floor division)
FloorDiv(a, b) == IF b > 0 THEN a \div b ELSE (0 - a) \div (0 - b)

----------------------------------------------------------------------------
(* BatchProcessor: hooks *)

\* the hook dict emit_progress_hook builds
ProgressHook(hook_type, data) ==
    [hook_type |-> hook_type, timestamp |-> now, component |-> "batch_processor",
     session_id |-> BatchSessionId, data |-> data, batch_operation |-> batch_operation]

\* self.progress_hooks after emit_progress_hook(...) for each of hooks, in order
EmitProgressHooks(hooks) ==
    IF emit_progress_hooks THEN progress_hooks \o hooks ELSE progress_hooks

\* the effect of a run of emit_progress_hook calls on the state: the hooks go
\* to self.progress_hooks (line 112) and nowhere else; BatchProcessor holds no
\* RuntimeHooks and calls no emit_hook
Emit(hooks) ==
    /\ progress_hooks' = EmitProgressHooks(hooks)
    /\ hook_calls' = hook_calls \o hooks

----------------------------------------------------------------------------
(* BatchProcessor: the item executor *)

TimeoutMessage == "Timeout after timeout_per_item seconds"

\* str(e) of what the processor raises on the item
FaultMessage(item) ==
    IF item = "raise" THEN "Missing required field" ELSE "upstream timed out"

\* what the processor returns on the item
ProcessorValue(item, index) == "value"

\* How "await asyncio.wait_for(process_func(item, index), timeout)" ends:
\* "return", "TimeoutError" or "Exception".  With timeout <= 0 wait_for cancels
\* the coroutine before its body runs and raises TimeoutError.
WaitFor(item) ==
    IF timeout_per_item <= 0 THEN "TimeoutError"
    ELSE CASE item = "ok" -> "return"
           [] item = "raise" -> "Exception"
           [] item = "raise_timeout" -> "TimeoutError"
           [] item = "slow" -> "TimeoutError"

\* BatchProcessor.process_item_with_timeout: the dict it returns
ProcessItemWithTimeout(item, index) ==
    LET how == WaitFor(item) IN
    CASE how = "return" ->
           [index |-> index, item |-> item, result |-> ProcessorValue(item, index),
            success |-> TRUE, error |-> None, timestamp |-> now]
      [] how = "TimeoutError" ->
           [index |-> index, item |-> item, result |-> None,
            success |-> FALSE, error |-> TimeoutMessage, timestamp |-> now]
      [] how = "Exception" ->
           [index |-> index, item |-> item, result |-> None,
            success |-> FALSE, error |-> FaultMessage(item), timestamp |-> now]

\* TRUE when the task of item k ends because its deadline elapsed
DeadlineElapses(k) == timeout_per_item <= 0 \/ Item(k) = "slow"

\* "await process_func(item, index)" with no deadline: the task ends only when
\* the processor does
TaskEndsOnItsOwn(k) == Item(k) # "slow"

\* the task of item k ends: the processor returned or raised, or the timer of
\* asyncio.wait_for fired and cancelled it
TaskEnds(k) == Item(k) # "slow" \/ DeadlineElapses(k)

----------------------------------------------------------------------------
(* BatchProcessor.process_batch_chunk *)

\* the indices of batch_items[i:]: the rest of the list
ChunkIndicesRest(i) == {k \in Indices : i <= k}

\* the indices of chunk = batch_items[i:i + batch_size]
ChunkIndices(i) == {k \in Indices : i <= k /\ k < i + batch_size}

\* the index of a task that forgets start_index
TaskIndexInChunk(start_index, i) == i

\* line 161: the index handed to the task of the i-th item of the chunk
TaskIndex(start_index, i) == start_index + i

\* a timeout that cancels every task of the chunk still running
TimeoutCancelsAll(k) == {j \in ChunkIndices(loop_i) : task[j] = "running"}

\* the tasks asyncio.wait_for cancels when the deadline of item k elapses:
\* the coroutine it awaits, and nothing else
TimeoutCancels(k) == {k}

\* what gather holds for a task that was cancelled from outside
CancelledResult == [raised |-> TRUE, value |-> "CancelledError"]

\* the first step of the task of item k: wait_for starts the processor
\* (tasks start in the order gather created them)
ItemStart(k) ==
    /\ pc = "gather"
    /\ task[k] = "created"
    /\ \A j \in ChunkIndices(loop_i) : j < k => task[j] # "created"
    /\ task' = [task EXCEPT ![k] = "running"]
    /\ invoked' = IF timeout_per_item > 0 THEN invoked \cup {k} ELSE invoked
    /\ calls' = [calls EXCEPT ![k] = @ + 1]
    /\ UNCHANGED <<batch_data, batch_size, timeout_per_item, delay_between_batches,
                   stop_on_error, emit_progress_hooks, batch_operation, pc, loop_i,
                   task_result, all_results, progress_hooks, hook_calls,
                   batch_results, batch_errors, batch_summary, result, finished,
                   fault>>
    /\ UNCHANGED previous
    /\ UNCHANGED <<hvars, avars, xvars>>

\* the task of item k ends: process_item_with_timeout returns its dict to gather
\* (no task ends before every task of the chunk has had its first step)
ItemFinish(k) ==
    /\ pc = "gather"
    /\ task[k] = "running"
    /\ \A j \in ChunkIndices(loop_i) : task[j] # "created"
    /\ TaskEnds(k)
    /\ finished' = Append(finished, k)
    /\ LET hit == IF DeadlineElapses(k)
                  THEN {j \in TimeoutCancels(k) : task[j] = "running"} \cup {k}
                  ELSE {k}
       IN /\ task' = [j \in DOMAIN task |-> IF j \in hit THEN "done" ELSE task[j]]
          /\ task_result' =
               [j \in DOMAIN task_result \cup hit |->
                  IF j = k THEN [raised |-> FALSE,
                                 value |-> ProcessItemWithTimeout(Item(k),
                                              TaskIndex(loop_i, k - loop_i))]
                  ELSE IF j \in hit THEN CancelledResult
                  ELSE task_result[j]]
    /\ UNCHANGED <<batch_data, batch_size, timeout_per_item, delay_between_batches,
                   stop_on_error, emit_progress_hooks, batch_operation, pc, loop_i,
                   all_results, progress_hooks, hook_calls, batch_results,
                   batch_errors, batch_summary, result, invoked, calls, fault>>
    /\ UNCHANGED previous
    /\ UNCHANGED <<hvars, avars, xvars>>

\* every result counted as failed
AllAsFailed(results) == results

Successful(results) == SelectSeq(results, LAMBDA r : r.success)
Failed(results) == SelectSeq(results, LAMBDA r : ~r.success)

\* gather resumes as soon as one task of the chunk has finished
GatherDoneFirst(i) == \E k \in ChunkIndices(i) : task[k] = "done"

\* "await asyncio.gather(*tasks)" resumes: every task of the chunk has finished
GatherDone(i) == \A k \in ChunkIndices(i) : task[k] = "done"

\* what gather holds for task k
GatherResult(k) ==
    IF k \in DOMAIN task_result THEN task_result[k]
    ELSE [raised |-> TRUE, value |-> "pending"]

\* lines 168-181: one entry of processed_results
ProcessedResult(r, index) ==
    IF r.raised
    THEN [index |-> index, item |-> Item(index), result |-> None, success |-> FALSE,
          error |-> r.value, timestamp |-> now]
    ELSE r.value

\* the results of the chunk in the order in which its tasks ended
ProcessedResultsAsCompleted(i) ==
    LET ended == SelectSeq(finished, LAMBDA k : k \in ChunkIndices(i))
    IN  [j \in DOMAIN ended |-> ProcessedResult(GatherResult(ended[j]), ended[j])]

\* processed_results: gather's results in task order
ProcessedResults(i) ==
    [j \in 1 .. Cardinality(ChunkIndices(i)) |->
        ProcessedResult(GatherResult(i + j - 1), i + j - 1)]

----------------------------------------------------------------------------
(* BatchProcessor.process_batch *)

\* the except clause missing: the exception reaches the caller
PropagateFault(message) == [raised |-> message]

\* error_summary of the except clause of process_batch
ControllerFault(message) ==
    [error |-> message, operation |-> batch_operation, session_id |-> BatchSessionId,
     failed_at |-> now]

\* range(0, total_items, batch_size) still has the value i
InRange(i) == batch_size > 0 /\ i < Len(batch_data)

\* range(0, total_items, 1): the loop advances by one item
NextChunkByOne(i) == i + 1

\* range(0, total_items, batch_size): the value of i after i
NextChunk(i) == i + batch_size

\* a delay after every chunk, the last one included
DelayAlways(i) == delay_between_batches > 0

\* line 328: "if i + self.batch_size < total_items and self.delay_between_batches > 0"
DelayNow(i) == i + batch_size < Len(batch_data) /\ delay_between_batches > 0

\* the check of batch_data left out
NoBatchDataNever == FALSE

\* line 275: "if not self.batch_data"
NoBatchData == batch_data = <<>>

\* the chunk loop goes on after a chunk with failures
StopNever(chunk_results) == FALSE

\* "if chunk_errors and self.stop_on_error"
StopNow(chunk_results) == Failed(chunk_results) # <<>> /\ stop_on_error

\* an error return that resets what the instance stored
ClearedOnError ==
    [batch_results |-> <<>>, batch_errors |-> <<>>, batch_summary |-> EmptyMap]

\* self.batch_results, self.batch_errors and self.batch_summary after a return
\* of lines 276, 298 or 367: none of them is assigned on these paths
KeptOnError ==
    [batch_results |-> batch_results, batch_errors |-> batch_errors,
     batch_summary |-> batch_summary]

\* lines 271-301: from the call to the head of the chunk loop
ProcessBatchEnter ==
    /\ pc = "idle"
    /\ LET total_items == Len(batch_data) IN
       IF NoBatchData
       THEN /\ result' = [error |-> "No batch data provided"]
            /\ pc' = "done"
            /\ UNCHANGED <<progress_hooks, hook_calls, fault, all_results, loop_i>>
       ELSE IF batch_size = 0
       THEN \* estimated_chunks divides by zero; the except clause runs
            LET message == "integer division or modulo by zero" IN
            /\ fault' = message
            /\ Emit(<<ProgressHook("batch_error", ControllerFault(message))>>)
            /\ result' = ControllerFault(message)
            /\ pc' = "done"
            /\ UNCHANGED <<all_results, loop_i>>
       ELSE /\ Emit(<<ProgressHook("batch_start",
                        [total_items |-> total_items, batch_size |-> batch_size,
                         operation |-> batch_operation,
                         estimated_chunks |->
                            FloorDiv(total_items + batch_size - 1, batch_size)])>>)
            /\ IF batch_operation \notin ProcessFunctions
               THEN /\ result' = [error |-> "Unknown batch operation"]
                    /\ pc' = "done"
                    /\ UNCHANGED <<all_results, loop_i>>
               ELSE /\ all_results' = <<>>
                    /\ loop_i' = 0
                    /\ pc' = "loop"
                    /\ UNCHANGED result
            /\ UNCHANGED fault
    /\ LET stored == IF pc' = "done" THEN KeptOnError
                     ELSE [batch_results |-> batch_results,
                           batch_errors |-> batch_errors,
                           batch_summary |-> batch_summary]
       IN /\ batch_results' = stored.batch_results
          /\ batch_errors' = stored.batch_errors
          /\ batch_summary' = stored.batch_summary
    /\ UNCHANGED <<batch_data, batch_size, timeout_per_item, delay_between_batches,
                   stop_on_error, emit_progress_hooks, batch_operation, task,
                   task_result, invoked, calls, finished>>
    /\ previous' = [runs |-> previous.runs + 1, hook_calls |-> hook_calls,
                    progress_hooks |-> progress_hooks,
                    batch_results |-> batch_results, batch_errors |-> batch_errors,
                    batch_summary |-> batch_summary]
    /\ UNCHANGED <<hvars, avars, xvars>>

\* lines 303-314 and 150-166: the loop takes its next chunk, process_batch_chunk
\* emits the chunk's start and hands one task per item to gather
ChunkStart ==
    /\ pc = "loop"
    /\ InRange(loop_i)
    /\ Emit(<<ProgressHook("chunk_progress",
                [chunk_index |-> loop_i \div batch_size, processed_items |-> loop_i,
                 total_items |-> Len(batch_data),
                 progress_percentage |-> <<100 * loop_i, Len(batch_data)>>]),
              ProgressHook("batch_chunk_start",
                [chunk_size |-> Cardinality(ChunkIndices(loop_i)),
                 start_index |-> loop_i, operation |-> batch_operation])>>)
    /\ task' = [k \in DOMAIN task |->
                  IF k \in ChunkIndices(loop_i) THEN "created" ELSE task[k]]
    /\ pc' = "gather"
    /\ UNCHANGED <<batch_data, batch_size, timeout_per_item, delay_between_batches,
                   stop_on_error, emit_progress_hooks, batch_operation, loop_i,
                   task_result, all_results, batch_results, batch_errors,
                   batch_summary, result, invoked, calls, finished, fault>>
    /\ UNCHANGED previous
    /\ UNCHANGED <<hvars, avars, xvars>>

\* lines 166-190 and 315-329: gather returns, the chunk's results are collected,
\* then the loop stops, sleeps or goes on
ChunkComplete ==
    /\ pc = "gather"
    /\ GatherDone(loop_i)
    /\ LET chunk_results == ProcessedResults(loop_i)
           complete == ProgressHook("batch_chunk_complete",
                         [chunk_size |-> Cardinality(ChunkIndices(loop_i)),
                          start_index |-> loop_i,
                          successful |-> Len(Successful(chunk_results)),
                          failed |-> Len(Failed(chunk_results))])
       IN /\ all_results' = all_results \o chunk_results
          /\ IF StopNow(chunk_results)
             THEN /\ Emit(<<complete,
                            ProgressHook("batch_stopped",
                              [reason |-> "stop_on_error",
                               processed_items |-> Len(all_results'),
                               errors |-> Len(Failed(chunk_results))])>>)
                  /\ pc' = "break"
                  /\ UNCHANGED loop_i
             ELSE /\ Emit(<<complete>>)
                  /\ IF DelayNow(loop_i)
                     THEN pc' = "sleep" /\ UNCHANGED loop_i
                     ELSE pc' = "loop" /\ loop_i' = NextChunk(loop_i)
    /\ UNCHANGED <<batch_data, batch_size, timeout_per_item, delay_between_batches,
                   stop_on_error, emit_progress_hooks, batch_operation, task,
                   task_result, batch_results, batch_errors, batch_summary, result,
                   invoked, calls, finished, fault>>
    /\ UNCHANGED previous
    /\ UNCHANGED <<hvars, avars, xvars>>

\* line 329: asyncio.sleep(delay_between_batches) returns
DelayElapsed ==
    /\ pc = "sleep"
    /\ pc' = "loop"
    /\ loop_i' = NextChunk(loop_i)
    /\ UNCHANGED <<batch_data, batch_size, timeout_per_item, delay_between_batches,
                   stop_on_error, emit_progress_hooks, batch_operation, task,
                   task_result, all_results, progress_hooks, hook_calls,
                   batch_results, batch_errors, batch_summary, result, invoked,
                   calls, finished, fault>>
    /\ UNCHANGED previous
    /\ UNCHANGED <<hvars, avars, xvars>>

\* failed / processed in the place of the success rate
FailureRate(results) ==
    IF results # <<>> THEN <<Len(Failed(results)), Len(results)>> ELSE <<0, 1>>

\* line 342: len(successful_results) / len(all_results) if all_results else 0,
\* as the fraction <<numerator, denominator>>
SuccessRate(results) ==
    IF results # <<>> THEN <<Len(Successful(results)), Len(results)>> ELSE <<0, 1>>

\* no batch_complete hook
NoCompletionHooks(summary) == <<>>

\* line 349: the hooks emitted when the results are compiled
CompletionHooks(summary) == <<ProgressHook("batch_complete", summary)>>

\* lines 337-347: the summary dict
Summary(results) ==
    [total_items |-> Len(batch_data),
     processed_items |-> Len(results),
     successful |-> Len(Successful(results)),
     failed |-> Len(Failed(results)),
     success_rate |-> SuccessRate(results),
     operation |-> batch_operation,
     session_id |-> BatchSessionId,
     started_at |-> IF progress_hooks # <<>> THEN progress_hooks[1].timestamp
                    ELSE NoneTime,
     completed_at |-> now]

\* lines 331-355: the loop is over (exhausted or left by break): results and
\* summary are stored, batch_complete is emitted, the Data is returned
Compile ==
    /\ \/ pc = "loop" /\ ~InRange(loop_i)
       \/ pc = "break"
    /\ batch_results' = all_results
    /\ batch_errors' = Failed(all_results)
    /\ batch_summary' = Summary(all_results)
    /\ Emit(CompletionHooks(batch_summary'))
    /\ result' = [results |-> all_results, summary |-> batch_summary',
                  session_id |-> BatchSessionId]
    /\ pc' = "done"
    /\ UNCHANGED <<batch_data, batch_size, timeout_per_item, delay_between_batches,
                   stop_on_error, emit_progress_hooks, batch_operation, loop_i, task,
                   task_result, all_results, invoked, calls, finished, fault>>
    /\ UNCHANGED previous
    /\ UNCHANGED <<hvars, avars, xvars>>

\* BatchProcessor.get_summary: Data(data=self.batch_summary)
GetSummary == batch_summary

\* BatchProcessor.get_errors
GetErrors == [errors |-> batch_errors, error_count |-> Len(batch_errors)]

----------------------------------------------------------------------------
(* BatchProcessor: several process_batch calls on one instance *)

MaxRuns == 2         \* process_batch calls per behaviour

\* the batch_data values a caller sets between calls
RunData == {<<>>, <<"raise", "ok">>}

\* the batch_size values a caller sets between calls
RunSizes == {-1, 0, 1}

\* process_batch has returned; the caller sets inputs of the component for its
\* next call (the locals of the call that ended are gone)
Reconfigure ==
    /\ pc = "done"
    /\ previous.runs < MaxRuns
    /\ batch_data' \in RunData
    /\ batch_size' \in RunSizes
    /\ batch_operation' \in Operations
    /\ pc' = "idle"
    /\ result' = NoResult
    /\ loop_i' = 0
    /\ task' = [k \in 0 .. (Len(batch_data') - 1) |-> "none"]
    /\ task_result' = EmptyMap
    /\ all_results' = <<>>
    /\ invoked' = {}
    /\ calls' = [k \in 0 .. (Len(batch_data') - 1) |-> 0]
    /\ finished' = <<>>
    /\ fault' = None
    /\ UNCHANGED <<timeout_per_item, delay_between_batches, stop_on_error,
                   emit_progress_hooks, progress_hooks, hook_calls, batch_results, batch_errors,
                   batch_summary, previous>>
    /\ UNCHANGED <<hvars, avars, xvars>>

\* time passes while a BatchProcessor is used
BatchTick ==
    /\ now < MaxTime
    /\ now' = now + 1
    /\ UNCHANGED <<hook_storage, session_hooks, last_cleanup, max_hooks,
                   retention_minutes, auto_cleanup, emitted, last_op, lvars,
                   notified, qvars, returned, summaries>>
    /\ UNCHANGED <<avars, bvars, xvars>>

----------------------------------------------------------------------------
(* GoHighLevelClient.emit_hook, AssistableAIClient.emit_hook *)

MaxClientEmits == 3  \* emit_hook calls on the client per behaviour

\* the "component" value of the two clients' hooks
ClientComponents == {"ghl_client", "assistable_ai_client"}
ClientHookTypes == {"test", "api_call_start"}

\* the hook dict the client's emit_hook builds
ClientHook(hook_type, data) ==
    [hook_type |-> hook_type, timestamp |-> now, component |-> client_component,
     data |-> data, status |-> "active"]

\* self.hooks after an emit_hook that does not test self.emit_hooks
HooksAfterEmitAlways(hook) == Append(client_hooks, hook)

\* self.hooks after emit_hook: "if self.emit_hooks: ... self.hooks.append(hook)"
HooksAfterEmit(hook) == IF emit_hooks THEN Append(client_hooks, hook) ELSE client_hooks

\* GoHighLevelClient.emit_hook / AssistableAIClient.emit_hook
ClientEmitHook(hook_type, data) ==
    /\ Len(client_calls) < MaxClientEmits
    /\ LET hook == ClientHook(hook_type, data) IN
        /\ client_hooks' = HooksAfterEmit(hook)
        /\ client_calls' = Append(client_calls,
                                  [hook_type |-> hook_type, enabled |-> emit_hooks,
                                   hooks_before |-> client_hooks,
                                   returned |-> IF emit_hooks THEN hook ELSE None])
    /\ UNCHANGED <<client_component, emit_hooks>>
    /\ UNCHANGED <<hvars, avars, bvars, kvars>>

\* the flow sets the client's emit_hooks input
SetEmitHooks(flag) ==
    /\ emit_hooks' = flag
    /\ UNCHANGED <<client_component, client_hooks, client_calls>>
    /\ UNCHANGED <<hvars, avars, bvars, kvars>>

\* the constructor state of a client that is not exercised
IdleClient ==
    /\ client_component = "ghl_client"
    /\ emit_hooks = TRUE
    /\ client_hooks = <<>>
    /\ client_calls = <<>>

\* GoHighLevelClient.__init__ / AssistableAIClient.__init__, inputs drawn
InitClient ==
    /\ client_component \in ClientComponents
    /\ emit_hooks \in BOOLEAN
    /\ client_hooks = <<>>
    /\ client_calls = <<>>

----------------------------------------------------------------------------
(* CacheManager *)

MaxSize == 2         \* max_size is drawn from 0..MaxSize
MaxCacheCalls == 4   \* CacheManager calls per behaviour

CacheKeys == {"k1", "k2", "k3"}
CacheTags == {"a", "b"}

\* ttl = None
NoTtl == -1

\* the ttl and tags arguments of set: ttl None or 0 seconds, tags None or a
\* list (a tag may be listed twice)
SetArguments ==
    {[ttl |-> NoTtl, tags |-> <<>>],
     [ttl |-> 0, tags |-> <<"a", "a">>],
     [ttl |-> 0, tags |-> <<"b">>],
     [ttl |-> NoTtl, tags |-> <<"a", "b">>]}

\* expires_at of an entry that never expires
NoExpiry == -1

\* the patterns handed to invalidate_by_pattern
Patterns == {"k", "1$"}

\* re.compile(pattern).search(key) on the keys of the model
RegexSearch(pattern, key) ==
    CASE pattern = "k" -> TRUE
      [] pattern = "1$" -> key = "k1"

\* list.remove(x): the list without the first occurrence of x
RemoveFirst(list, x) ==
    LET first == CHOOSE i \in DOMAIN list :
                    list[i] = x /\ \A j \in 1 .. (i - 1) : list[j] # x
    IN  [i \in 1 .. (Len(list) - 1) |-> IF i < first THEN list[i] ELSE list[i + 1]]

\* "key in self.cache"
InCache(c, key) == \E i \in DOMAIN c : c[i].key = key

\* self.cache[key]
Entry(c, key) == c[CHOOSE i \in DOMAIN c : c[i].key = key]

\* CacheEntry.__init__: the fields that CacheManager's calls read or write
CacheEntry(key, value, ttl, tags) ==
    [key |-> key, value |-> value,
     expires_at |-> IF ttl # 0 THEN now + ttl ELSE NoExpiry,
     tags |-> tags, access_count |-> 0]

\* CacheEntry.is_expired
IsExpired(entry) == entry.expires_at # NoExpiry /\ now > entry.expires_at

\* "del self.cache[key]"
Without(c, key) == SelectSeq(c, LAMBDA entry : entry.key # key)

\* lines 155-158 without "del self.tag_index[tag]"
UnlistedKeepEmpty(index, key, tag) ==
    IF tag \in DOMAIN index /\ key \in Range(index[tag])
    THEN [index EXCEPT ![tag] = RemoveFirst(@, key)]
    ELSE index

\* lines 155-158: one iteration of the loop over entry.tags
Unlisted(index, key, tag) ==
    IF tag \in DOMAIN index /\ key \in Range(index[tag])
    THEN LET rest == RemoveFirst(index[tag], key)
         IN  IF rest = <<>> THEN [t \in DOMAIN index \ {tag} |-> index[t]]
             ELSE [index EXCEPT ![tag] = rest]
    ELSE index

RECURSIVE UnlistedFrom(_, _, _, _)
\* lines 154-158: self.tag_index after the loop over tags[k..]
UnlistedFrom(index, key, tags, k) ==
    IF k > Len(tags) THEN index
    ELSE UnlistedFrom(Unlisted(index, key, tags[k]), key, tags, k + 1)

\* CacheManager._remove_entry: the cache and the tag index after it
RemoveEntry(state, key) ==
    IF InCache(state.cache, key)
    THEN [cache |-> Without(state.cache, key),
          tag_index |-> UnlistedFrom(state.tag_index, key,
                                     Entry(state.cache, key).tags, 1)]
    ELSE state

RECURSIVE RemoveEntries(_, _, _)
\* "for key in keys: self._remove_entry(key)" on keys[k..]
RemoveEntries(state, keys, k) ==
    IF k > Len(keys) THEN state
    ELSE RemoveEntries(RemoveEntry(state, keys[k]), keys, k + 1)

RECURSIVE ListedFrom(_, _, _, _)
\* lines 133-137: self.tag_index after the loop over tags[k..]
ListedFrom(index, key, tags, k) ==
    IF k > Len(tags) THEN index
    ELSE LET tag == tags[k]
             listed == [t \in DOMAIN index \cup {tag} |->
                          IF t = tag
                          THEN (IF t \in DOMAIN index THEN Append(index[t], key)
                                ELSE <<key>>)
                          ELSE index[t]]
         IN  ListedFrom(listed, key, tags, k + 1)

\* the keys of the cache, in the order of the OrderedDict
KeysOf(c) == [i \in DOMAIN c |-> c[i].key]

\* the order of the keys' last use after key was used
Used(key) == Append(SelectSeq(recency, LAMBDA k : k # key), key)

\* self.cache.move_to_end(key)
MoveToEnd(c, key) == Append(Without(c, key), Entry(c, key))

\* what every CacheManager call made between two sets leaves unchanged
CallDone ==
    /\ cache_calls' = cache_calls + 1
    /\ UNCHANGED <<max_size, default_ttl, cache_pc, set_call, now>>
    /\ UNCHANGED <<hook_storage, session_hooks, last_cleanup, max_hooks,
                   retention_minutes, auto_cleanup, emitted, last_op, lvars,
                   notified, qvars, returned, summaries>>
    /\ UNCHANGED <<avars, bvars, cvars>>

\* a CacheManager call may start: no call holds the lock
CallMayStart == cache_pc = "idle" /\ cache_calls < MaxCacheCalls

\* CacheManager.get
CacheGet(key) ==
    /\ CallMayStart
    /\ IF ~InCache(cache, key)
       THEN /\ stats' = [stats EXCEPT !.misses = @ + 1]
            /\ UNCHANGED <<cache, tag_index, recency>>
       ELSE IF IsExpired(Entry(cache, key))
       THEN LET after == RemoveEntry([cache |-> cache, tag_index |-> tag_index], key)
            IN  /\ cache' = after.cache
                /\ tag_index' = after.tag_index
                /\ stats' = [stats EXCEPT !.misses = @ + 1, !.expirations = @ + 1]
                /\ UNCHANGED recency
       ELSE LET moved == MoveToEnd(cache, key)
            IN  /\ cache' = [moved EXCEPT ![Len(moved)].access_count = @ + 1]
                /\ stats' = [stats EXCEPT !.hits = @ + 1]
                /\ recency' = Used(key)
                /\ UNCHANGED tag_index
    /\ CallDone

\* CacheManager.set, lines 115-122: the default ttl, the existing entry removed
CacheSetBegin(key, ttl, tags) ==
    /\ CallMayStart
    /\ LET after == RemoveEntry([cache |-> cache, tag_index |-> tag_index], key)
       IN  /\ cache' = after.cache
           /\ tag_index' = after.tag_index
    /\ set_call' = [key |-> key, ttl |-> IF ttl = NoTtl THEN default_ttl ELSE ttl,
                    tags |-> tags]
    /\ cache_pc' = "evict"
    /\ cache_calls' = cache_calls + 1
    /\ UNCHANGED <<max_size, default_ttl, stats, recency, now>>
    /\ UNCHANGED <<hook_storage, session_hooks, last_cleanup, max_hooks,
                   retention_minutes, auto_cleanup, emitted, last_op, lvars,
                   notified, qvars, returned, summaries>>
    /\ UNCHANGED <<avars, bvars, cvars>>

\* CacheManager.set, lines 125-126 and 160-165: one iteration of
\* "while len(self.cache) >= self.max_size: self._evict_lru()"
CacheSetEvict ==
    /\ cache_pc = "evict"
    /\ Len(cache) >= max_size
    /\ IF cache # <<>>
       THEN LET after == RemoveEntry([cache |-> cache, tag_index |-> tag_index],
                                     cache[1].key)
            IN  /\ cache' = after.cache
                /\ tag_index' = after.tag_index
                /\ stats' = [stats EXCEPT !.evictions = @ + 1]
       ELSE UNCHANGED <<cache, tag_index, stats>>
    /\ UNCHANGED <<max_size, default_ttl, cache_pc, set_call, recency, cache_calls, now>>
    /\ UNCHANGED <<hook_storage, session_hooks, last_cleanup, max_hooks,
                   retention_minutes, auto_cleanup, emitted, last_op, lvars,
                   notified, qvars, returned, summaries>>
    /\ UNCHANGED <<avars, bvars, cvars>>

\* CacheManager.set, lines 128-137: the loop is left, the entry is stored and
\* listed under its tags
CacheSetStore ==
    /\ cache_pc = "evict"
    /\ Len(cache) < max_size
    /\ cache' = Append(cache, CacheEntry(set_call.key, "v", set_call.ttl,
                                         set_call.tags))
    /\ tag_index' = ListedFrom(tag_index, set_call.key, set_call.tags, 1)
    /\ recency' = Used(set_call.key)
    /\ cache_pc' = "idle"
    /\ set_call' = EmptyMap
    /\ UNCHANGED <<max_size, default_ttl, stats, cache_calls, now>>
    /\ UNCHANGED <<hook_storage, session_hooks, last_cleanup, max_hooks,
                   retention_minutes, auto_cleanup, emitted, last_op, lvars,
                   notified, qvars, returned, summaries>>
    /\ UNCHANGED <<avars, bvars, cvars>>

\* CacheManager.delete
CacheDelete(key) ==
    /\ CallMayStart
    /\ LET after == RemoveEntry([cache |-> cache, tag_index |-> tag_index], key)
       IN  /\ cache' = after.cache
           /\ tag_index' = after.tag_index
    /\ UNCHANGED <<stats, recency>>
    /\ CallDone

\* CacheManager.invalidate_by_tag
InvalidateByTag(tag) ==
    /\ CallMayStart
    /\ IF tag \notin DOMAIN tag_index
       THEN /\ UNCHANGED <<cache, tag_index>>
       ELSE LET keys_to_remove == tag_index[tag]
                after == RemoveEntries([cache |-> cache, tag_index |-> tag_index],
                                       keys_to_remove, 1)
            IN  /\ cache' = after.cache
                /\ tag_index' = after.tag_index
    /\ UNCHANGED <<stats, recency>>
    /\ CallDone

\* CacheManager.invalidate_by_pattern
InvalidateByPattern(pattern) ==
    /\ CallMayStart
    /\ LET keys_to_remove == SelectSeq(KeysOf(cache),
                                       LAMBDA key : RegexSearch(pattern, key))
           after == RemoveEntries([cache |-> cache, tag_index |-> tag_index],
                                  keys_to_remove, 1)
       IN  /\ cache' = after.cache
           /\ tag_index' = after.tag_index
    /\ UNCHANGED <<stats, recency>>
    /\ CallDone

\* CacheManager.clear
CacheClear ==
    /\ CallMayStart
    /\ cache' = <<>>
    /\ tag_index' = EmptyMap
    /\ UNCHANGED <<stats, recency>>
    /\ CallDone

\* CacheManager.cleanup_expired
CleanupExpired ==
    /\ CallMayStart
    /\ LET expired_keys == KeysOf(SelectSeq(cache, IsExpired))
           after == RemoveEntries([cache |-> cache, tag_index |-> tag_index],
                                  expired_keys, 1)
       IN  /\ cache' = after.cache
           /\ tag_index' = after.tag_index
           /\ stats' = [stats EXCEPT !.expirations = @ + Len(expired_keys)]
    /\ UNCHANGED recency
    /\ CallDone

\* time.time() advances by one second
CacheTick ==
    /\ now < MaxTime
    /\ now' = now + 1
    /\ UNCHANGED <<hook_storage, session_hooks, last_cleanup, max_hooks,
                   retention_minutes, auto_cleanup, emitted, last_op, lvars,
                   notified, qvars, returned, summaries>>
    /\ UNCHANGED <<avars, bvars, xvars>>

\* the constructor state of a CacheManager that is not exercised
IdleCache ==
    /\ max_size = 1
    /\ default_ttl = 1
    /\ cache = <<>>
    /\ tag_index = EmptyMap
    /\ stats = [hits |-> 0, misses |-> 0, evictions |-> 0, expirations |-> 0]
    /\ cache_pc = "idle"
    /\ set_call = EmptyMap
    /\ recency = <<>>
    /\ cache_calls = 0

\* CacheManager.__init__, with max_size drawn
InitCache ==
    /\ max_size \in 0 .. MaxSize
    /\ default_ttl = 1
    /\ cache = <<>>
    /\ tag_index = EmptyMap
    /\ stats = [hits |-> 0, misses |-> 0, evictions |-> 0, expirations |-> 0]
    /\ cache_pc = "idle"
    /\ set_call = EmptyMap
    /\ recency = <<>>
    /\ cache_calls = 0

----------------------------------------------------------------------------
(* Initial states and specifications *)

\* RuntimeHooks.__init__, with the inputs drawn
InitHooks ==
    /\ hook_storage = <<>>
    /\ session_hooks = EmptyMap
    /\ now = 0
    /\ last_cleanup = 0
    /\ max_hooks \in 1 .. MaxCap
    /\ retention_minutes \in 1 .. MaxRetention
    /\ auto_cleanup \in BOOLEAN
    /\ emitted = <<>>
    /\ last_op = "init"
    /\ hook_listeners = <<>>
    /\ real_time_updates = TRUE
    /\ notified = <<>>
    /\ hook_mode = "monitor"
    /\ hook_input = EmptyMap
    /\ filter_type = ""
    /\ component_filter = ""
    /\ returned = EmptyMap
    /\ summaries = <<>>

\* no aggregation yet
InitAgg ==
    /\ agg_input = <<>>
    /\ agg_output = EmptyMap

\* BatchProcessor.__init__, with the inputs drawn
InitBatch ==
    /\ batch_data \in SeqsUpTo(Behaviours, MaxItems)
    /\ batch_size \in -1 .. MaxBatchSize
    /\ timeout_per_item \in 0 .. MaxTimeout
    /\ delay_between_batches \in -1 .. MaxDelay
    /\ stop_on_error \in BOOLEAN
    /\ emit_progress_hooks \in BOOLEAN
    /\ batch_operation \in Operations
    /\ pc = "idle"
    /\ loop_i = 0
    /\ task = [k \in Indices |-> "none"]
    /\ task_result = EmptyMap
    /\ all_results = <<>>
    /\ progress_hooks = <<>>
    /\ hook_calls = <<>>
    /\ batch_results = <<>>
    /\ batch_errors = <<>>
    /\ batch_summary = EmptyMap
    /\ result = NoResult
    /\ invoked = {}
    /\ calls = [k \in Indices |-> 0]
    /\ finished = <<>>
    /\ fault = None
    /\ previous = NoCallYet

\* the constructor state of a RuntimeHooks that is not exercised
IdleHooks ==
    /\ hook_storage = <<>>
    /\ session_hooks = EmptyMap
    /\ now = 0
    /\ last_cleanup = 0
    /\ max_hooks = 1
    /\ retention_minutes = 1
    /\ auto_cleanup = TRUE
    /\ emitted = <<>>
    /\ last_op = "init"
    /\ hook_listeners = <<>>
    /\ real_time_updates = TRUE
    /\ notified = <<>>
    /\ hook_mode = "monitor"
    /\ hook_input = EmptyMap
    /\ filter_type = ""
    /\ component_filter = ""
    /\ returned = EmptyMap
    /\ summaries = <<>>

\* the constructor state of a BatchProcessor that is not exercised
IdleBatch ==
    /\ batch_data = <<>>
    /\ batch_size = 1
    /\ timeout_per_item = 1
    /\ delay_between_batches = 0
    /\ stop_on_error = FALSE
    /\ emit_progress_hooks = TRUE
    /\ batch_operation = "bulk_ai_calls"
    /\ pc = "idle"
    /\ loop_i = 0
    /\ task = EmptyMap
    /\ task_result = EmptyMap
    /\ all_results = <<>>
    /\ progress_hooks = <<>>
    /\ hook_calls = <<>>
    /\ batch_results = <<>>
    /\ batch_errors = <<>>
    /\ batch_summary = EmptyMap
    /\ result = NoResult
    /\ invoked = {}
    /\ calls = [k \in Indices |-> 0]
    /\ finished = <<>>
    /\ fault = None
    /\ previous = NoCallYet

\* an emit_hook call with drawn arguments
EmitAny ==
    \E hook_type \in EmitTypes, session_id \in SessionIds \cup {NoSession} :
        EmitHook(hook_type, "batch_processor", [action |-> "a1"], session_id)

\* emit_hook calls only, as time passes
InitStore == InitHooks /\ InitAgg /\ IdleBatch /\ IdleClient /\ IdleCache
NextEmit == EmitAny \/ Tick
SpecEmit == InitStore /\ [][NextEmit]_vars

\* emit_hook and cleanup_old_hooks calls, as time passes
NextHooks == EmitAny \/ CleanupOldHooks \/ Tick
SpecHooks == InitStore /\ [][NextHooks]_vars

\* a RuntimeHooks with real_time_updates drawn and no listener yet
InitListeners ==
    /\ hook_storage = <<>>
    /\ session_hooks = EmptyMap
    /\ now = 0
    /\ last_cleanup = 0
    /\ max_hooks \in 1 .. MaxCap
    /\ retention_minutes = 1
    /\ auto_cleanup = TRUE
    /\ emitted = <<>>
    /\ last_op = "init"
    /\ hook_listeners = <<>>
    /\ real_time_updates \in BOOLEAN
    /\ notified = <<>>
    /\ hook_mode = "monitor"
    /\ hook_input = EmptyMap
    /\ filter_type = ""
    /\ component_filter = ""
    /\ returned = EmptyMap
    /\ summaries = <<>>

\* listeners are registered and hooks are emitted
InitListen == InitListeners /\ InitAgg /\ IdleBatch /\ IdleClient /\ IdleCache
NextListen == (\E callback \in Listeners : AddHookListener(callback)) \/ EmitAny
SpecListen == InitListen /\ [][NextListen]_vars

\* a RuntimeHooks with the filter inputs drawn
InitFilters ==
    /\ hook_storage = <<>>
    /\ session_hooks = EmptyMap
    /\ now = 0
    /\ last_cleanup = 0
    /\ max_hooks = 1
    /\ retention_minutes = 1
    /\ auto_cleanup = TRUE
    /\ emitted = <<>>
    /\ last_op = "init"
    /\ hook_listeners = <<>>
    /\ real_time_updates = TRUE
    /\ notified = <<>>
    /\ hook_mode = "monitor"
    /\ hook_input = EmptyMap
    /\ filter_type \in FilterTypes
    /\ component_filter \in ComponentFilters
    /\ returned = EmptyMap
    /\ summaries = <<>>

\* a caller collects hooks, filters and summarises them
InitQuery == InitFilters /\ InitAgg /\ IdleBatch /\ IdleClient /\ IdleCache
NextQuery == (\E hook \in QueryHooks : QueryExtend(hook)) \/ FilterCall \/ SummaryCall
SpecQuery == InitQuery /\ [][NextQuery]_vars

\* a RuntimeHooks component with its inputs drawn
InitComponent ==
    /\ hook_storage = <<>>
    /\ session_hooks = EmptyMap
    /\ now = 0
    /\ last_cleanup = 0
    /\ max_hooks \in 1 .. MaxCap
    /\ retention_minutes = 1
    /\ auto_cleanup \in BOOLEAN
    /\ emitted = <<>>
    /\ last_op = "init"
    /\ hook_listeners = <<>>
    /\ real_time_updates = TRUE
    /\ notified = <<>>
    /\ hook_mode \in HookModes
    /\ hook_input \in HookInputs
    /\ filter_type = ""
    /\ component_filter = ""
    /\ returned = EmptyMap
    /\ summaries = <<>>

\* an emit_hook call of another component
EmitOne == EmitHook("pre_task", "batch_processor", [action |-> "a1"], "s1")

\* the outputs of the component are read while hooks arrive and time passes
InitProcess == InitComponent /\ InitAgg /\ IdleBatch /\ IdleClient /\ IdleCache
NextProcess ==
    \/ EmitOne
    \/ ProcessHooks
    \/ HooksSummary
    \/ GetStatus
    \/ GetRealtimeFeed
    \/ Tick
    \/ Elapse
SpecProcess == InitProcess /\ [][NextProcess]_vars

\* a caller collects hooks and aggregates them
InitAggregation == IdleHooks /\ InitAgg /\ IdleBatch /\ IdleClient /\ IdleCache
NextAgg == (\E hook \in AggHooks : AggExtend(hook)) \/ AggregateCall
SpecAgg == InitAggregation /\ [][NextAgg]_vars

\* the same with hooks of several action values
NextAggOps == (\E hook \in AggOpHooks : AggExtend(hook)) \/ AggregateCall
SpecAggOps == InitAggregation /\ [][NextAggOps]_vars

\* one process_batch run
InitRun == IdleHooks /\ InitAgg /\ InitBatch /\ IdleClient /\ IdleCache
NextBatch ==
    \/ ProcessBatchEnter
    \/ ChunkStart
    \/ \E k \in Indices : ItemStart(k)
    \/ \E k \in Indices : ItemFinish(k)
    \/ ChunkComplete
    \/ DelayElapsed
    \/ Compile
SpecBatch == InitRun /\ [][NextBatch]_vars

\* the inputs delay_between_batches of an instance: no pause, or one
RunDelays == {0, 1}

\* a BatchProcessor with the inputs of its first call drawn
InitInstance ==
    /\ batch_data \in RunData
    /\ batch_size \in RunSizes
    /\ timeout_per_item = 1
    /\ delay_between_batches \in RunDelays
    /\ stop_on_error \in BOOLEAN
    /\ emit_progress_hooks \in BOOLEAN
    /\ batch_operation \in Operations
    /\ pc = "idle"
    /\ loop_i = 0
    /\ task = [k \in Indices |-> "none"]
    /\ task_result = EmptyMap
    /\ all_results = <<>>
    /\ progress_hooks = <<>>
    /\ hook_calls = <<>>
    /\ batch_results = <<>>
    /\ batch_errors = <<>>
    /\ batch_summary = EmptyMap
    /\ result = NoResult
    /\ invoked = {}
    /\ calls = [k \in Indices |-> 0]
    /\ finished = <<>>
    /\ fault = None
    /\ previous = NoCallYet

\* process_batch is called again and again on one instance, as time passes
InitRuns == IdleHooks /\ InitAgg /\ InitInstance /\ IdleClient /\ IdleCache
NextRuns == NextBatch \/ Reconfigure \/ BatchTick
SpecBatchRuns == InitRuns /\ [][NextRuns]_vars

\* the components that emit hooks: a client and a BatchProcessor run
InitEnable == IdleHooks /\ InitAgg /\ InitInstance /\ InitClient /\ IdleCache
NextEnable ==
    \/ \E hook_type \in ClientHookTypes : ClientEmitHook(hook_type, [message |-> "m"])
    \/ \E flag \in BOOLEAN : SetEmitHooks(flag)
    \/ NextBatch
SpecEnable == InitEnable /\ [][NextEnable]_vars

\* the calls of a CacheManager, as time passes
InitManager == IdleHooks /\ InitAgg /\ IdleBatch /\ IdleClient /\ InitCache
NextCache ==
    \/ \E key \in CacheKeys : CacheGet(key)
    \/ \E key \in CacheKeys, arguments \in SetArguments :
          CacheSetBegin(key, arguments.ttl, arguments.tags)
    \/ CacheSetEvict
    \/ CacheSetStore
    \/ \E key \in CacheKeys : CacheDelete(key)
    \/ \E tag \in CacheTags : InvalidateByTag(tag)
    \/ \E pattern \in Patterns : InvalidateByPattern(pattern)
    \/ CacheClear
    \/ CleanupExpired
    \/ CacheTick
SpecCache == InitManager /\ [][NextCache]_vars

\* The thread that called set holds the lock and keeps running: a step of the
\* call in progress that changes the state is taken.
FairCache == WF_vars(CacheSetEvict) /\ WF_vars(CacheSetStore)
SpecCacheLive == InitManager /\ [][NextCache]_vars /\ FairCache

\* The same run on asyncio's event loop, which keeps running a task that is
\* ready and fires a timer (a deadline of wait_for, the end of a sleep) that is
\* due: a step of the run that stays possible is taken.
FairBatch == WF_vars(NextBatch)
SpecBatchLive == InitRun /\ [][NextBatch]_vars /\ FairBatch

----------------------------------------------------------------------------
(* Properties of the RuntimeHooks store *)

\* C1 (SpecEmit): after any sequence of emit_hook calls the store holds at most
\* max_hooks hooks, and they are exactly the min(n, max_hooks) most recently
\* emitted ones, in emission order.
C1_StoreKeepsMostRecent ==
    LET n == Len(emitted)
        m == Min(n, max_hooks)
    IN  /\ Len(hook_storage) <= max_hooks
        /\ Len(hook_storage) = m
        /\ \A j \in 1 .. m : hook_storage[j] = emitted[n - m + j]

\* C1 witness: more hooks were emitted than the store holds, under several
\* session ids, so the oldest ones were evicted.
C1_Witness ==
    /\ Len(emitted) > max_hooks
    /\ max_hooks > 1
    /\ last_op = "emit"
    /\ \E a, b \in DOMAIN emitted : emitted[a].session_id # emitted[b].session_id

\* C7 (SpecHooks), as claimed: after a cleanup pass every hook the session index
\* references is in the main store, and no session entry is empty.
C7_IndexWithinStoreAfterCleanup ==
    last_op = "cleanup" =>
        \A s \in DOMAIN session_hooks :
            /\ session_hooks[s] # <<>>
            /\ \A h \in Range(session_hooks[s]) : h \in Range(hook_storage)

\* What does hold after a cleanup pass: no session entry is empty and every
\* indexed hook is newer than the cutoff.
IndexFreshAfterCleanup ==
    last_op = "cleanup" =>
        \A s \in DOMAIN session_hooks :
            /\ session_hooks[s] # <<>>
            /\ \A h \in Range(session_hooks[s]) :
                   h.timestamp > last_cleanup - retention_minutes

----------------------------------------------------------------------------
(* Properties of aggregate_hooks_by_session *)

\* the hooks list cut after its first k hooks
Prefix(hooks, k) == SubSeq(hooks, 1, k)

\* C8 (SpecAgg): when the aggregation of a list reports a session as error, the
\* aggregation of that list extended by any further hooks reports it as error too.
C8_ErrorIsTerminal ==
    LET after == AggregateHooksBySession(agg_input) IN
    \A k \in 0 .. Len(agg_input) :
        LET before == AggregateHooksBySession(Prefix(agg_input, k)) IN
        \A s \in DOMAIN before :
            before[s].status = "error" =>
                s \in DOMAIN after /\ after[s].status = "error"

\* C8 witness: a session was in error, an end_run hook of that session followed,
\* and the aggregation of the whole list was computed and reports error.
C8_Witness ==
    /\ agg_output = AggregateHooksBySession(agg_input)
    /\ \E k \in 1 .. Len(agg_input), j \in 1 .. Len(agg_input) :
        LET s == Get(agg_input[k].session_id, "default") IN
        /\ k < j
        /\ agg_input[k].hook_type = "error"
        /\ agg_input[j].hook_type = "end_run"
        /\ Get(agg_input[j].session_id, "default") = s
        /\ agg_output[s].status = "error"

----------------------------------------------------------------------------
(* Properties of process_batch *)

\* the chunk item k belongs to (batch_size > 0)
ChunkOf(k) == k \div batch_size

\* emit_progress_hook recorded every call (when enabled) or none (when disabled)
HooksRecorded ==
    progress_hooks = IF emit_progress_hooks THEN hook_calls ELSE <<>>

\* the entry of all_results (or of gather) for item k failed
FailedItem(k) ==
    k \in DOMAIN task_result /\ ~ProcessedResult(task_result[k], k).success

\* C2 (SpecBatch): no item of a chunk is started, and the chunk's
\* batch_chunk_start is not emitted, before every item of every earlier chunk
\* has finished with a result (a timeout result included).
C2_ChunksStrictlySequential ==
    /\ \A k \in Indices : task[k] # "none" =>
          \A j \in Indices : ChunkOf(j) < ChunkOf(k) =>
              task[j] = "done" /\ j \in DOMAIN task_result
    /\ \A n \in DOMAIN hook_calls :
          hook_calls[n].hook_type = "batch_chunk_start" =>
              \A j \in Indices : j < hook_calls[n].data.start_index =>
                  task[j] = "done" /\ j \in DOMAIN task_result

\* C2 witness: an item of the second chunk is running, and the first chunk held
\* an item that ended by its timeout.
C2_Witness ==
    /\ timeout_per_item > 0
    /\ \E k \in Indices :
        /\ task[k] = "running"
        /\ ChunkOf(k) = 1
        /\ \E j \in Indices :
            /\ ChunkOf(j) = 0
            /\ Item(j) = "slow"
            /\ task_result[j].value.error = TimeoutMessage

\* C3 (SpecBatch): with stop_on_error, once an item has failed no item of a
\* later chunk is ever started; the run ends with every item of the chunks up
\* to the failing one finished, batch_stopped emitted right after that chunk's
\* batch_chunk_complete, and summary.processed_items counting exactly the
\* items of those chunks.  (A hook is emitted by a call of emit_progress_hook,
\* which records it when emit_progress_hooks is set.)
C3_StopOnError ==
    stop_on_error =>
      /\ \A k, j \in Indices :
            FailedItem(k) /\ ChunkOf(j) > ChunkOf(k) => task[j] = "none"
      /\ (pc = "done" /\ \E k \in Indices : FailedItem(k)) =>
            LET first == CHOOSE k \in Indices :
                            FailedItem(k) /\ \A j \in Indices : FailedItem(j) => k <= j
                upto == Min((ChunkOf(first) + 1) * batch_size, Len(batch_data))
            IN  /\ \A k \in Indices : k < upto => task[k] = "done"
                /\ "summary" \in DOMAIN result
                /\ result.summary.processed_items = upto
                /\ Len(result.results) = upto
                /\ HooksRecorded
                /\ \E n \in DOMAIN hook_calls :
                      /\ hook_calls[n].hook_type = "batch_stopped"
                      /\ hook_calls[n].data.processed_items = upto
                      /\ n > 1
                      /\ hook_calls[n - 1].hook_type = "batch_chunk_complete"
                      /\ hook_calls[n - 1].data.start_index
                            = ChunkOf(first) * batch_size
                      /\ \A later \in DOMAIN hook_calls : later > n =>
                            hook_calls[later].hook_type = "batch_complete"

\* C3 witness: the first item of a chunk of two failed, its sibling still ran
\* to a successful result, a later chunk exists and was never started, and the
\* batch_stopped hook was recorded.
C3_Witness ==
    /\ stop_on_error
    /\ pc = "done"
    /\ batch_size = 2
    /\ Len(batch_data) = 3
    /\ FailedItem(0)
    /\ 1 \in DOMAIN task_result /\ task_result[1].value.success
    /\ task[2] = "none"
    /\ \E n \in DOMAIN progress_hooks : progress_hooks[n].hook_type = "batch_stopped"

\* C4 (SpecBatch), as claimed: for a non-empty list of L items, batch_size C > 0
\* and stop_on_error disabled, process_batch runs ceil(L/C) chunks and returns
\* L results, one per item.
C4_AllChunksAllResults ==
    (pc = "done" /\ batch_data # <<>> /\ batch_size > 0 /\ ~stop_on_error) =>
        /\ Cardinality({n \in DOMAIN hook_calls :
                           hook_calls[n].hook_type = "batch_chunk_start"})
              = (Len(batch_data) + batch_size - 1) \div batch_size
        /\ "results" \in DOMAIN result
        /\ Len(result.results) = Len(batch_data)
        /\ {result.results[n].index : n \in DOMAIN result.results} = Indices

\* The same for the operations process_functions knows, where it holds.
ChunkCountOfKnownOperation ==
    batch_operation \in ProcessFunctions => C4_AllChunksAllResults

\* C5 (SpecBatch): an item that outlives timeout_per_item gets a failed result
\* with the timeout error, and every other item of the chunk still gets the
\* result it gets when run alone: its own success, fault or timeout.
C5_TimeoutIsolation ==
    \A k \in DOMAIN task_result :
        LET r == ProcessedResult(task_result[k], k) IN
        /\ ~task_result[k].raised
        /\ r = ProcessItemWithTimeout(Item(k), k)
        /\ timeout_per_item > 0 =>
            /\ Item(k) = "slow" => ~r.success /\ r.error = TimeoutMessage
            /\ Item(k) = "ok" => r.success /\ r.error = None
            /\ Item(k) = "raise" => ~r.success /\ r.error = FaultMessage(Item(k))

\* C5 witness: in one chunk an item timed out and its sibling completed with a
\* successful result, both collected by gather.
C5_Witness ==
    /\ timeout_per_item > 0
    /\ \E j, k \in DOMAIN task_result :
        /\ j # k
        /\ ChunkOf(j) = ChunkOf(k)
        /\ Item(j) = "slow"
        /\ task_result[j].value.error = TimeoutMessage
        /\ Item(k) = "ok"
        /\ task_result[k].value.success
    /\ pc = "done"

\* C6 (SpecBatch), as claimed: process_item_with_timeout returns a record with
\* the given index and item; success with the processor's value on normal
\* completion, the timeout error when the deadline elapses, and the fault's
\* message when the processor raises.
C6_ResultRecord ==
    \A k \in DOMAIN task_result :
        LET r == task_result[k].value IN
        /\ ~task_result[k].raised
        /\ r.index = k
        /\ r.item = Item(k)
        /\ DeadlineElapses(k) => ~r.success /\ r.error = TimeoutMessage
        /\ timeout_per_item > 0 =>
            /\ Item(k) = "ok" =>
                  r.success /\ r.result = ProcessorValue(Item(k), k) /\ r.error = None
            /\ Item(k) \in {"raise", "raise_timeout"} =>
                  ~r.success /\ r.error = FaultMessage(Item(k))

\* the policy the claim calls invalid
InvalidPolicy ==
    batch_size <= 0 \/ timeout_per_item <= 0 \/ delay_between_batches < 0

\* C9 (SpecBatch), as claimed: with an invalid policy no chunk is started, no
\* processor is invoked and process_batch returns an error result.
C9_PolicyValidatedFirst ==
    InvalidPolicy =>
        /\ \A k \in Indices : task[k] = "none"
        /\ invoked = {}
        /\ \A n \in DOMAIN hook_calls : hook_calls[n].hook_type # "batch_chunk_start"
        /\ pc = "done" => "error" \in DOMAIN result

\* C10 (SpecBatch): an exception raised in process_batch's own code never
\* reaches the caller; process_batch emits batch_error as its last hook and
\* returns an error result with the exception's message and the session id.
C10_ControllerFaultCaught ==
    /\ pc = "done" => "raised" \notin DOMAIN result
    /\ fault # None =>
        /\ pc = "done"
        /\ "error" \in DOMAIN result /\ result.error = fault
        /\ "session_id" \in DOMAIN result /\ result.session_id = BatchSessionId
        /\ hook_calls # <<>>
        /\ hook_calls[Len(hook_calls)].hook_type = "batch_error"
        /\ hook_calls[Len(hook_calls)].data.error = fault
        /\ HooksRecorded

\* C10 witness: a run ended by a caught exception, with its batch_error hook
\* recorded.
C10_Witness ==
    /\ fault # None
    /\ pc = "done"
    /\ progress_hooks # <<>>
    /\ progress_hooks[Len(progress_hooks)].hook_type = "batch_error"
    /\ Len(batch_data) > 1

\* process_batch has returned to its caller
Returned == pc = "done" /\ "pending" \notin DOMAIN result

\* C11 (SpecBatchLive): with batch_size > 0 and timeout_per_item > 0 every
\* process_batch call eventually returns, and by then every item that would
\* not complete on its own and whose chunk was started was ended by its timeout.
C11_BatchTerminates ==
    (batch_size > 0 /\ timeout_per_item > 0) =>
        <>(/\ Returned
           /\ \A k \in Indices : task[k] \in {"none", "done"}
           /\ \A k \in DOMAIN task_result : Item(k) = "slow" =>
                  /\ ~task_result[k].raised
                  /\ task_result[k].value.error = TimeoutMessage)

\* C11 witness: a run whose first chunk held only an item that never completes
\* on its own has gone on to the next chunk and returned its summary.
C11_Witness ==
    /\ Returned
    /\ batch_size = 1 /\ timeout_per_item > 0
    /\ Len(batch_data) > 1
    /\ Item(0) = "slow"
    /\ "summary" \in DOMAIN result
    /\ result.summary.processed_items = Len(batch_data)
    /\ task[1] = "done"
    /\ task_result[0].value.error = TimeoutMessage

\* the items whose task exists and has not ended
InFlight == {k \in Indices : task[k] \in {"created", "running"}}

C13_NoRetry ==
    \A k \in Indices :
        /\ calls[k] <= 1
        /\ task[k] \in {"running", "done"} => calls[k] = 1
        /\ task[k] \in {"none", "created"} => calls[k] = 0
        /\ k \in invoked => calls[k] = 1

\* C13 witness: a run has returned after an item failed and another timed
\* out, each called once.
C13_Witness ==
    /\ Returned
    /\ timeout_per_item > 0
    /\ \E j, k \in Indices :
        /\ Item(j) = "raise" /\ Item(k) = "slow"
        /\ FailedItem(j) /\ FailedItem(k)
        /\ calls[j] = 1 /\ calls[k] = 1

\* C14 (SpecBatch): the summary's success_rate equals successful /
\* processed_items, lies in [0, 1], and is 0 when no item was processed
\* (success_rate is the fraction <<numerator, denominator>>).
C14_SuccessRate ==
    "summary" \in DOMAIN result =>
        LET m == result.summary
            num == m.success_rate[1]
            den == m.success_rate[2]
        IN  /\ m = batch_summary
            /\ m.processed_items = Len(result.results)
            /\ m.successful = Cardinality({n \in DOMAIN result.results :
                                             result.results[n].success})
            /\ den > 0
            /\ 0 <= num /\ num <= den
            /\ num * m.processed_items = m.successful * den
            /\ m.processed_items = 0 => num = 0

\* C14 witness: a returned summary with some but not all processed items
\* successful.
C14_Witness ==
    /\ Returned
    /\ "summary" \in DOMAIN result
    /\ result.summary.successful > 0
    /\ result.summary.successful < result.summary.processed_items
    /\ result.summary.success_rate
          = <<result.summary.successful, result.summary.processed_items>>

\* C15 (SpecBatch): the results of a run carry pairwise distinct indices, each
\* the 0-based position of its item in batch_data, in whatever order the tasks
\* ended.
C15_IndexIsPosition ==
    /\ \A n \in DOMAIN all_results :
          /\ all_results[n].index \in Indices
          /\ all_results[n].index = n - 1
          /\ all_results[n].item = Item(all_results[n].index)
    /\ \A n, m \in DOMAIN all_results :
          n # m => all_results[n].index # all_results[m].index
    /\ "results" \in DOMAIN result => result.results = all_results

\* C15 witness: a run returned the results of several chunks, and in one chunk
\* the task of a later item ended before the task of an earlier one.
C15_Witness ==
    /\ Returned
    /\ "results" \in DOMAIN result
    /\ Len(result.results) = 3
    /\ batch_size = 2
    /\ \E a, b \in DOMAIN finished : a < b /\ finished[a] > finished[b]

\* C16 (SpecBatch): on an empty batch_data process_batch returns an error
\* result at once: it never enters the chunk loop, emits no hook (so no chunk
\* hook) and calls no item processor.
C16_EmptyListRejected ==
    batch_data = <<>> =>
        /\ pc \in {"idle", "done"}
        /\ hook_calls = <<>> /\ progress_hooks = <<>>
        /\ invoked = {} /\ InFlight = {}
        /\ pc = "done" =>
              /\ DOMAIN result = {"error"}
              /\ result.error = "No batch data provided"
              /\ fault = None
              /\ all_results = <<>>

\* C16 witness: a run on an empty list has returned its error result.
C16_Witness ==
    /\ batch_data = <<>>
    /\ Returned
    /\ result = [error |-> "No batch data provided"]

\* the positions in hook_calls of the hooks of a type
HooksOfType(hook_type) == {n \in DOMAIN hook_calls : hook_calls[n].hook_type = hook_type}

\* process_batch has entered its chunk loop
LoopEntered == batch_data # <<>> /\ batch_size # 0 /\ batch_operation \in ProcessFunctions

\* C17 (SpecBatch): a run that entered its chunk loop ends, after the last chunk
\* or after a stop by stop_on_error, with the summary computed and exactly one
\* batch_complete hook, emitted last and carrying the summary; no batch_complete
\* is emitted earlier, and after a stop the batch_stopped hook precedes it.
\* (A hook is emitted by a call of emit_progress_hook, which records it when
\* emit_progress_hooks is set.)
C17_BatchCompleteLast ==
    /\ pc # "done" => HooksOfType("batch_complete") = {}
    /\ (pc = "done" /\ LoopEntered) =>
          /\ "summary" \in DOMAIN result
          /\ result.summary = Summary(all_results)
          /\ result.summary.processed_items = Len(all_results)
          /\ HooksOfType("batch_complete") = {Len(hook_calls)}
          /\ hook_calls[Len(hook_calls)].data = result.summary
          /\ HooksRecorded
          /\ HooksOfType("batch_stopped") # {} =>
                HooksOfType("batch_stopped") = {Len(hook_calls) - 1}
    /\ pc = "break" => HooksOfType("batch_stopped") = {Len(hook_calls)}

\* C17 witness: a run stopped by stop_on_error has returned; batch_stopped and
\* then batch_complete are the last hooks recorded.
C17_Witness ==
    /\ Returned
    /\ stop_on_error
    /\ Len(progress_hooks) > 2
    /\ progress_hooks[Len(progress_hooks)].hook_type = "batch_complete"
    /\ progress_hooks[Len(progress_hooks) - 1].hook_type = "batch_stopped"
    /\ Len(all_results) < Len(batch_data)

\* the chunk at loop_i made stop_on_error halt the run
HaltedAt(i) == stop_on_error /\ \E k \in Indices : ChunkOf(k) = ChunkOf(i) /\ FailedItem(k)

\* C18 (SpecBatch): when a chunk has been collected, process_batch sleeps
\* exactly when further items remain, delay_between_batches > 0 and the run was
\* not halted by stop_on_error; the sleep is entered only there and is followed
\* by the next chunk, and a halted run goes to its end without sleeping.
C18_DelayExactlyBetweenChunks ==
    [][/\ (pc = "gather" /\ pc' # "gather") =>
            (pc' = "sleep" <=> /\ loop_i + batch_size < Len(batch_data)
                               /\ delay_between_batches > 0
                               /\ ~HaltedAt(loop_i))
       /\ (pc' = "sleep" /\ pc # "sleep") => pc = "gather"
       /\ (pc = "sleep" /\ pc' # "sleep") =>
            /\ pc' = "loop"
            /\ loop_i' = loop_i + batch_size
            /\ loop_i' < Len(batch_data)
       /\ (pc = "break" /\ pc' # "break") => pc' = "done"
      ]_vars

\* C18 witness: the run sleeps after a chunk with a failed item, as
\* stop_on_error is off, the delay is positive and another chunk remains.
C18_Witness ==
    /\ pc = "sleep"
    /\ delay_between_batches > 0
    /\ ~stop_on_error
    /\ loop_i + batch_size < Len(batch_data)
    /\ \E k \in Indices : k >= loop_i /\ FailedItem(k)

\* the item indices of the chunk that starts at start_index
ItemsFrom(start_index) ==
    {k \in Indices : start_index <= k /\ k < start_index + batch_size}

\* C19 (SpecBatch): a task of a chunk exists only after the chunk's
\* batch_chunk_start hook; a batch_chunk_complete hook follows the start hook
\* of its chunk and is emitted only when every item of the chunk has finished;
\* its successful and failed counts are those of the chunk's results and add
\* up to the chunk's size.
C19_ChunkHooks ==
    /\ \A k \in Indices : task[k] # "none" =>
          \E n \in HooksOfType("batch_chunk_start") :
              k \in ItemsFrom(hook_calls[n].data.start_index)
    /\ \A n \in HooksOfType("batch_chunk_start") :
          /\ hook_calls[n].data.chunk_size
                = Cardinality(ItemsFrom(hook_calls[n].data.start_index))
          /\ \A k \in Indices : k >= hook_calls[n].data.start_index + batch_size =>
                (task[k] = "none" \/ \E m \in HooksOfType("batch_chunk_start") :
                                        m > n /\ k \in ItemsFrom(hook_calls[m].data.start_index))
    /\ \A n \in HooksOfType("batch_chunk_complete") :
          LET d == hook_calls[n].data
              chunk == ItemsFrom(d.start_index)
          IN  /\ \E m \in HooksOfType("batch_chunk_start") :
                    m < n /\ hook_calls[m].data.start_index = d.start_index
              /\ \A k \in chunk : task[k] = "done" /\ k \in DOMAIN task_result
              /\ d.successful = Cardinality({k \in chunk : ~FailedItem(k)})
              /\ d.failed = Cardinality({k \in chunk : FailedItem(k)})
              /\ d.successful + d.failed = d.chunk_size
              /\ d.chunk_size = Cardinality(chunk)
    /\ HooksRecorded

\* C19 witness: the batch_chunk_complete hook of a chunk of two with one
\* successful and one failed item was recorded.
C19_Witness ==
    \E n \in DOMAIN progress_hooks :
        /\ progress_hooks[n].hook_type = "batch_chunk_complete"
        /\ progress_hooks[n].data.chunk_size = 2
        /\ progress_hooks[n].data.successful = 1
        /\ progress_hooks[n].data.failed = 1

\* C20 (SpecBatch), as claimed: every hook the batch controller emits is
\* recorded in the RuntimeHooks store (and, carrying a session id, in its session
\* index).
C20_BatchHooksInStore ==
    \A n \in DOMAIN hook_calls :
        /\ \E h \in Range(emitted) :
              /\ h.hook_type = hook_calls[n].hook_type
              /\ h.component = "batch_processor"
              /\ h.session_id = BatchSessionId
        /\ BatchSessionId \in DOMAIN session_hooks

\* What the code does with the hooks of a run: they are kept in the
\* processor's own progress_hooks, and the store is never written.
BatchHooksStayLocal ==
    /\ HooksRecorded
    /\ hook_storage = <<>> /\ emitted = <<>> /\ session_hooks = EmptyMap

----------------------------------------------------------------------------
(* Properties of emit_hook and its listeners *)

\* the hook the last emit_hook call created
LastEmitted == emitted[Len(emitted)]

\* C21 (SpecEmit), as claimed: emit_hook appends the hook it creates to the main
\* store and to the session index entry of the hook's session_id, which is
\* "default" when no session_id was given.
C21_EmitIndexesEveryHook ==
    last_op = "emit" =>
        /\ hook_storage[Len(hook_storage)] = LastEmitted
        /\ LastEmitted.session_id \in SessionIds \cup {"default"}
        /\ LastEmitted.session_id \in DOMAIN session_hooks
        /\ LET entry == session_hooks[LastEmitted.session_id]
           IN  entry[Len(entry)] = LastEmitted

\* What does hold: the hook is appended to the main store, and to the session
\* index when a session_id was given; a hook of the session "default" is in no
\* index entry.
EmitIndexesGivenSessions ==
    /\ "default" \notin DOMAIN session_hooks
    /\ last_op = "emit" =>
          /\ hook_storage[Len(hook_storage)] = LastEmitted
          /\ returned = LastEmitted
          /\ LastEmitted.session_id # "default" =>
                /\ LastEmitted.session_id \in DOMAIN session_hooks
                /\ LET entry == session_hooks[LastEmitted.session_id]
                   IN  entry[Len(entry)] = LastEmitted

\* the listener calls of the last emit_hook call
LastNotified == SelectSeq(notified, LAMBDA n : n.hook = LastEmitted)

\* the last emit_hook call called every registered listener once, in
\* registration order, with the hook it had stored before
AllListenersNotified ==
    /\ Len(LastNotified) = Len(hook_listeners)
    /\ \A i \in DOMAIN LastNotified :
          /\ LastNotified[i].listener = i
          /\ LastNotified[i].stored
    /\ LastNotified = LastN(notified, Len(hook_listeners))

\* the last emit_hook call stored the hook and returned it
EmitCompleted ==
    /\ hook_storage[Len(hook_storage)] = LastEmitted
    /\ returned = LastEmitted

\* C22 (SpecListen), as claimed: every emit_hook call calls every registered
\* listener exactly once with the new hook, in registration order, after the
\* hook was stored; a listener that raises changes none of this, and emit_hook
\* returns the hook.
C22_EveryEmitNotifies ==
    last_op = "emit" => AllListenersNotified /\ EmitCompleted

\* C22, amended: the same when real_time_updates is set; when it is not set,
\* emit_hook calls no listener, and still stores and returns the hook.
C22_NotifiesWhenRealTime ==
    /\ last_op = "emit" =>
          /\ EmitCompleted
          /\ real_time_updates => AllListenersNotified
    /\ ~real_time_updates => notified = <<>>

\* C22 witness: with real_time_updates set, the first of two listeners raised
\* and the second was still called with the stored hook, which emit_hook
\* returned.
C22_Witness ==
    /\ last_op = "emit"
    /\ real_time_updates
    /\ hook_listeners = <<"raise", "ok">>
    /\ Len(LastNotified) = 2
    /\ LastNotified[1].raised /\ ~LastNotified[2].raised
    /\ LastNotified[2].stored
    /\ returned = LastEmitted

----------------------------------------------------------------------------
(* Properties of cleanup_old_hooks *)

\* the step is a cleanup pass that ran (auto_cleanup is set)
CleanupPass == last_op' = "cleanup" /\ now' = now /\ emitted' = emitted

\* after is what is left of before when exactly the hooks not newer than the
\* cutoff are removed and the others keep their order (hooks are emitted with
\* increasing ids)
KeepsNewer(before, after, cutoff) ==
    /\ Range(after) = {h \in Range(before) : h.timestamp > cutoff}
    /\ Len(after) = Cardinality(Range(after))
    /\ \A i, j \in DOMAIN after : i < j => after[i].id < after[j].id

RetentionExample ==
    /\ last_op = "cleanup"
    /\ Len(emitted) = 3
    /\ \E h \in Range(emitted) : h.session_id # "default"
    /\ hook_storage = <<>>
    /\ DOMAIN session_hooks = {}

----------------------------------------------------------------------------
(* Properties of filter_hooks and get_hook_summary *)

\* the hook passes both filters; an empty filter passes every hook
Matches(h) ==
    /\ filter_type = "" \/ h.hook_type = filter_type
    /\ component_filter = "" \/ h.component = component_filter

\* C24 (SpecQuery): filter_hooks returns exactly the hooks of its input that
\* match the hook-type filter and the component filter, in their order; with
\* both filters empty it returns the input unchanged.
C24_FilterExact ==
    /\ FilterHooks(agg_input) = SelectSeq(agg_input, Matches)
    /\ (filter_type = "" /\ component_filter = "") => FilterHooks(agg_input) = agg_input
    /\ last_op = "filter_hooks" =>
          \E k \in 0 .. Len(agg_input) :
              returned = SelectSeq(Prefix(agg_input, k), Matches)

\* C24 witness: with both filters set, filter_hooks was called on a list of two
\* hooks and returned the one that matches both.
C24_Witness ==
    /\ last_op = "filter_hooks"
    /\ filter_type # "" /\ component_filter # ""
    /\ Len(agg_input) = 2
    /\ returned = FilterHooks(agg_input)
    /\ returned = <<agg_input[2]>>
    /\ agg_input[1].hook_type = filter_type
    /\ agg_input[1].component # component_filter

RECURSIVE SumOf(_, _)
\* the sum of counts[v] over the values v of S
SumOf(counts, S) ==
    IF S = {} THEN 0
    ELSE LET v == CHOOSE x \in S : TRUE IN counts[v] + SumOf(counts, S \ {v})

\* counts gives, for every value of the key among the hooks (and for no other
\* value), the number of hooks with that value, "unknown" standing for a hook
\* without the key
CountsPerValue(counts, hooks, key) ==
    /\ DOMAIN counts = {Get(hooks[k][key], "unknown") : k \in DOMAIN hooks}
    /\ \A v \in DOMAIN counts :
          counts[v] = Cardinality({k \in DOMAIN hooks : Get(hooks[k][key], "unknown") = v})
    /\ SumOf(counts, DOMAIN counts) = Len(hooks)

----------------------------------------------------------------------------
(* Properties of the session records of aggregate_hooks_by_session *)

\* the session a hook is aggregated under
SessionOf(hook) == Get(hook.session_id, "default")

\* the positions in hooks of the hooks of session s
HooksOf(hooks, s) == {k \in DOMAIN hooks : SessionOf(hooks[k]) = s}

\* the status the claim derives from the set of a session's hooks
StatusOf(hooks, s) ==
    IF \E k \in HooksOf(hooks, s) : hooks[k].hook_type = "error" THEN "error"
    ELSE IF \E k \in HooksOf(hooks, s) : hooks[k].hook_type = "end_run" THEN "completed"
    ELSE "active"

\* C27 (SpecAgg): the status of a session is error when the session has an
\* error hook, otherwise completed when it has an end_run hook, otherwise
\* active, whatever the order of the hooks; and hook by hook it only moves
\* from active to completed or error and from completed to error.
C27_StatusMachine ==
    LET out == AggregateHooksBySession(agg_input) IN
    /\ DOMAIN out = {SessionOf(agg_input[k]) : k \in DOMAIN agg_input}
    /\ \A s \in DOMAIN out : out[s].status = StatusOf(agg_input, s)
    /\ \A k \in 1 .. Len(agg_input) :
          LET before == AggregateHooksBySession(Prefix(agg_input, k - 1))
              after == AggregateHooksBySession(Prefix(agg_input, k))
          IN  \A s \in DOMAIN after :
                LET old == IF s \in DOMAIN before THEN before[s].status ELSE "active"
                    new == after[s].status
                IN  /\ old = "error" => new = "error"
                    /\ old = "completed" => new \in {"completed", "error"}
                    /\ (old = "active" /\ new = "completed") =>
                          agg_input[k].hook_type = "end_run"

\* C27 witness: the aggregation was computed for two sessions; one had end_run
\* and then error and is error, the other had end_run only and is completed.
C27_Witness ==
    /\ agg_output = AggregateHooksBySession(agg_input)
    /\ Len(agg_input) = 3
    /\ DOMAIN agg_output = {"s1", "default"}
    /\ \E a, b \in HooksOf(agg_input, "s1") :
          a < b /\ agg_input[a].hook_type = "end_run" /\ agg_input[b].hook_type = "error"
    /\ agg_output["s1"].status = "error"
    /\ agg_output["default"].status = "completed"

\* the values of a sequence are pairwise distinct
NoDuplicates(seq) == \A i, j \in DOMAIN seq : i # j => seq[i] # seq[j]

\* C28 (SpecAggOps): every hook of the input is in exactly one session record,
\* that of its session_id ("default" without one); a record holds its hooks in
\* input order, their least and greatest timestamp as start_time and end_time,
\* each action value of its pre_task hooks once, and the payload of each of its
\* error hooks, one per hook.
C28_SessionRecords ==
    LET out == AggregateHooksBySession(agg_input) IN
    /\ DOMAIN out = {SessionOf(agg_input[k]) : k \in DOMAIN agg_input}
    /\ \A s \in DOMAIN out :
          LET mine == SelectSeq(agg_input, LAMBDA h : SessionOf(h) = s)
              pre == SelectSeq(mine, LAMBDA h : h.hook_type = "pre_task")
              err == SelectSeq(mine, LAMBDA h : h.hook_type = "error")
          IN  /\ out[s].session_id = s
              /\ out[s].hooks = mine
              /\ \A h \in Range(mine) :
                    out[s].start_time <= h.timestamp /\ h.timestamp <= out[s].end_time
              /\ \E h \in Range(mine) : h.timestamp = out[s].start_time
              /\ \E h \in Range(mine) : h.timestamp = out[s].end_time
              /\ NoDuplicates(out[s].operations)
              /\ Range(out[s].operations) = {h.data.action : h \in Range(pre)}
              /\ out[s].errors = [k \in DOMAIN err |-> err[k].data]

\* C28 witness: the aggregation was computed for a session with three pre_task
\* hooks, two of them with the same action, at decreasing and increasing times.
C28_Witness ==
    /\ agg_output = AggregateHooksBySession(agg_input)
    /\ Len(agg_input) = 3
    /\ DOMAIN agg_output = {"s1"}
    /\ \A k \in DOMAIN agg_input : agg_input[k].hook_type = "pre_task"
    /\ agg_input[1].data.action = "a1"
    /\ agg_input[2].data.action = "a2"
    /\ agg_input[3].data.action = "a1"
    /\ agg_output["s1"].operations = <<"a1", "a2">>
    /\ agg_input[1].timestamp > agg_input[2].timestamp
    /\ agg_output["s1"].start_time = agg_input[2].timestamp
    /\ agg_output["s1"].end_time = agg_input[1].timestamp

\* the hooks of the store that get_realtime_updates has to return
RecentStored == {h \in Range(hook_storage) : h.timestamp > now - RealtimeWindow}

\* C29 (SpecProcess): get_realtime_updates returns exactly the stored hooks
\* newer than now minus the window, each once, newest first; a
\* get_realtime_feed call returns that list and leaves the store as it was.
C29_RealtimeUpdates ==
    /\ [](LET updates == GetRealtimeUpdates IN
            /\ Range(updates) = RecentStored
            /\ Len(updates) = Len(Fresh(hook_storage, now - RealtimeWindow))
            /\ \A i, j \in DOMAIN updates :
                  i < j => updates[i].timestamp >= updates[j].timestamp
            /\ last_op = "get_realtime_feed" =>
                  /\ Range(returned.realtime_hooks) \subseteq Range(emitted)
                  /\ \A i, j \in DOMAIN returned.realtime_hooks :
                        i < j => returned.realtime_hooks[i].timestamp
                                   >= returned.realtime_hooks[j].timestamp)
    /\ [][last_op' = "get_realtime_feed" /\ returned' # returned =>
            /\ returned'.realtime_hooks = GetRealtimeUpdates
            /\ hook_storage' = hook_storage
            /\ session_hooks' = session_hooks]_vars

\* C29 witness: the feed was read from a store of two hooks of different
\* ages, one of them exactly a window old and left out, the other returned.
C29_Witness ==
    /\ last_op = "get_realtime_feed"
    /\ Len(hook_storage) = 2
    /\ hook_storage[1].timestamp = now - RealtimeWindow
    /\ hook_storage[2].timestamp > now - RealtimeWindow
    /\ returned.realtime_hooks = <<hook_storage[2]>>

\* the feed was read from a store of two recent hooks of different times and
\* lists the later one first
NewestListedFirst ==
    /\ last_op = "get_realtime_feed"
    /\ Len(hook_storage) = 2
    /\ hook_storage[1].timestamp < hook_storage[2].timestamp
    /\ returned.realtime_hooks = <<hook_storage[2], hook_storage[1]>>

\* the step is a process_hooks call
ProcessStep ==
    /\ last_op' \in {"process_hooks", "process_hooks_cleanup",
                     "process_hooks_cleanup_skipped"}
    /\ now' = now

\* the step is a process_hooks call whose cleanup pass ran
PassRuns == last_op' = "process_hooks_cleanup" /\ now' = now

\* the step is an emit_hook call, made directly or by process_hooks
EmitStep == emitted' # emitted

\* the step takes no hook out of the store but the oldest one of a full
\* store, and nothing out of the session index
NothingRemovedForAge ==
    /\ \A h \in Range(hook_storage) :
          h \notin Range(hook_storage') =>
              /\ EmitStep
              /\ Len(hook_storage) = max_hooks
              /\ h = Head(hook_storage)
    /\ \A s \in DOMAIN session_hooks :
          /\ s \in DOMAIN session_hooks'
          /\ Len(session_hooks'[s]) >= Len(session_hooks[s])
          /\ SubSeq(session_hooks'[s], 1, Len(session_hooks[s])) = session_hooks[s]

\* C30 (SpecProcess): cleanup is time-triggered, not per emit. A step that
\* is not a cleanup pass, an emit_hook call among them, removes no hook for
\* its age; process_hooks runs a cleanup pass only when more than 10 minutes
\* have passed since last_cleanup; last_cleanup changes exactly in the steps
\* where a cleanup pass runs, and becomes the time of the pass.
C30_CleanupTimeTriggered ==
    [][/\ ~PassRuns => NothingRemovedForAge
       /\ PassRuns => now - last_cleanup > CleanupInterval /\ auto_cleanup
       /\ (ProcessStep /\ now - last_cleanup > CleanupInterval /\ auto_cleanup)
             => PassRuns
       /\ PassRuns <=> last_cleanup' # last_cleanup
       /\ PassRuns => last_cleanup' = now]_vars

\* C30 witness: exactly 10 minutes after last_cleanup, process_hooks emitted
\* a hook and ran no cleanup pass: the store still holds a hook older than
\* the retention window next to the new one.
C30_Witness ==
    /\ last_op = "process_hooks"
    /\ now - last_cleanup = CleanupInterval
    /\ Len(hook_storage) = 2
    /\ hook_storage[1].timestamp < now - retention_minutes
    /\ hook_storage[2].timestamp = now
    /\ hook_storage[2] = returned.emitted_hook

\* 11 minutes after last_cleanup, process_hooks ran the cleanup pass: the
\* old hooks are gone and last_cleanup is the time of the pass
CleanupPassRan ==
    /\ last_op = "process_hooks_cleanup"
    /\ last_cleanup = now
    /\ now = CleanupInterval + 1
    /\ emitted # <<>>
    /\ hook_storage = <<>>
    /\ session_hooks = EmptyMap


----------------------------------------------------------------------------
(* Properties of hook emission, of repeated runs and of the cache *)

\* the hooks the enabled calls of the client returned, in call order
ReturnedHooks ==
    LET enabled == SelectSeq(client_calls, LAMBDA c : c.enabled)
    IN  [n \in DOMAIN enabled |-> enabled[n].returned]

\* C31 (SpecEnable): hook emission is gated by the enable flag. A client
\* emit_hook call made while emit_hooks is off returns None and leaves
\* self.hooks as it was; one made while it is on appends exactly one hook,
\* with the given hook_type and the client's own component name, and returns
\* it. A process_batch step with emit_progress_hooks off leaves
\* progress_hooks unchanged; with it on, each emit_progress_hook call appends
\* its hook, which carries the component name batch_processor.
C31_EmissionGated ==
    /\ [](/\ \A n \in DOMAIN client_calls :
                LET c == client_calls[n]
                    after == IF n < Len(client_calls)
                             THEN client_calls[n + 1].hooks_before
                             ELSE client_hooks
                IN  IF c.enabled
                    THEN /\ after = Append(c.hooks_before, c.returned)
                         /\ c.returned.hook_type = c.hook_type
                         /\ c.returned.component = client_component
                    ELSE /\ after = c.hooks_before
                         /\ c.returned = None
          /\ client_hooks = ReturnedHooks
          /\ \A n \in DOMAIN progress_hooks :
                progress_hooks[n].component = "batch_processor")
    /\ [][IF emit_progress_hooks
          THEN progress_hooks' = progress_hooks \o
                 SubSeq(hook_calls', Len(hook_calls) + 1, Len(hook_calls'))
          ELSE progress_hooks' = progress_hooks]_vars

\* C31 witness: the client emitted with the flag on, then with it off, then
\* with it on again, and holds the two hooks of the enabled calls; a batch run
\* with progress hooks disabled has returned a summary and recorded no hook.
C31_Witness ==
    /\ Len(client_calls) = 3
    /\ client_calls[1].enabled /\ ~client_calls[2].enabled /\ client_calls[3].enabled
    /\ client_calls[2].returned = None
    /\ client_hooks = <<client_calls[1].returned, client_calls[3].returned>>
    /\ ~emit_progress_hooks
    /\ pc = "done"
    /\ "summary" \in DOMAIN result
    /\ Len(hook_calls) > 2
    /\ progress_hooks = <<>>


\* C32 (SpecBatch): process_batch returns its results in index order: the
\* result at position k (0-based) has index k and is the result of item k, so
\* the returned results cover a contiguous prefix of batch_data, in whatever
\* order the tasks ended; self.batch_results holds the same list.
C32_ResultsInIndexOrder ==
    (pc = "done" /\ "results" \in DOMAIN result) =>
        /\ Len(result.results) <= Len(batch_data)
        /\ \A n \in DOMAIN result.results :
              /\ result.results[n].index = n - 1
              /\ result.results[n].item = batch_data[n]
        /\ {result.results[n].index : n \in DOMAIN result.results}
              = 0 .. (Len(result.results) - 1)
        /\ batch_results = result.results

\* C32 witness: a run returned three results in index order although the
\* tasks of its first chunk ended in the opposite order.
C32_Witness ==
    /\ pc = "done"
    /\ "results" \in DOMAIN result
    /\ Len(result.results) = 3
    /\ batch_size = 2
    /\ finished[1] = 1 /\ finished[2] = 0
    /\ result.results[1].index = 0
    /\ result.results[2].index = 1
    /\ result.results[3].index = 2


\* the positions in progress_hooks of the events of a type
EventsOfType(hook_type) ==
    {n \in DOMAIN progress_hooks : progress_hooks[n].hook_type = hook_type}

\* the number of batch_complete and batch_error events the run emitted
TerminalEvents ==
    Cardinality(EventsOfType("batch_complete") \cup EventsOfType("batch_error"))

\* C33 (SpecBatch): a process_batch run that emitted a batch_start event has
\* emitted exactly one terminal event, batch_complete or batch_error, when it
\* returns, for every option of batch_operation.
C33_OneTerminalEvent ==
    (pc = "done" /\ EventsOfType("batch_start") # {}) => TerminalEvents = 1

\* the same for the operations that have a processing function
TerminalEventOfKnownOperation ==
    (pc = "done" /\ EventsOfType("batch_start") # {}
       /\ batch_operation \in ProcessFunctions) => TerminalEvents = 1

\* a run of a known operation emitted batch_start and returned
KnownOperationReturned ==
    /\ pc = "done"
    /\ EventsOfType("batch_start") # {}
    /\ batch_operation \in ProcessFunctions

\* the events the current process_batch call has appended to progress_hooks
EventsOfThisRun ==
    SubSeq(progress_hooks, Len(previous.progress_hooks) + 1, Len(progress_hooks))

\* the current call emitted events and returned a summary
SummaryReturnedWithEvents ==
    /\ pc = "done"
    /\ "summary" \in DOMAIN result
    /\ emit_progress_hooks

\* C34 (SpecBatchRuns): the summary's started_at is the timestamp of the
\* batch_start event of the same run and is not later than completed_at, also
\* when process_batch is called more than once on the same instance.
C34_StartedAtOfSameRun ==
    SummaryReturnedWithEvents =>
        /\ EventsOfThisRun[1].hook_type = "batch_start"
        /\ result.summary.started_at = EventsOfThisRun[1].timestamp
        /\ result.summary.started_at <= result.summary.completed_at

\* the same for the first process_batch call that records an event
StartedAtOfFirstRecordedRun ==
    (SummaryReturnedWithEvents /\ previous.progress_hooks = <<>>) =>
        /\ EventsOfThisRun[1].hook_type = "batch_start"
        /\ result.summary.started_at = EventsOfThisRun[1].timestamp
        /\ result.summary.started_at <= result.summary.completed_at

\* the first recorded run returned a summary after time had passed in it
FirstRecordedRunReturned ==
    /\ SummaryReturnedWithEvents
    /\ previous.progress_hooks = <<>>
    /\ result.summary.started_at < result.summary.completed_at


\* the emit_progress_hook calls of the current process_batch call
CallsOfThisRun == SubSeq(hook_calls, Len(previous.hook_calls) + 1, Len(hook_calls))

\* the current call left its chunk loop by the break of stop_on_error
StoppedOnError ==
    /\ stop_on_error
    /\ \E n \in DOMAIN CallsOfThisRun : CallsOfThisRun[n].hook_type = "batch_stopped"

\* what C35 says of a run that returned a summary
SummaryAccounts ==
    LET summary == result.summary IN
    /\ summary.successful + summary.failed = summary.processed_items
    /\ summary.processed_items <= summary.total_items
    /\ GetSummary = summary
    /\ GetErrors.errors = Failed(result.results)
    /\ GetErrors.error_count = summary.failed
    /\ summary.processed_items < summary.total_items => StoppedOnError

\* C35 (SpecBatchRuns): after a process_batch run that returned a summary,
\* successful + failed = processed_items <= total_items, get_errors returns
\* exactly the failed results of that run with error_count = summary.failed,
\* and processed_items < total_items only when stop_on_error stopped the run.
C35_SummaryAccounts ==
    (pc = "done" /\ "summary" \in DOMAIN result) => SummaryAccounts

\* the same for a positive batch_size
SummaryAccountsOfValidSize ==
    (pc = "done" /\ "summary" \in DOMAIN result /\ batch_size > 0) => SummaryAccounts

\* a second run with a positive batch_size was stopped after its first chunk
\* and get_errors reports its one failed result
StoppedRunAccounted ==
    /\ pc = "done"
    /\ "summary" \in DOMAIN result
    /\ previous.runs = 2
    /\ batch_size = 1
    /\ result.summary.processed_items = 1
    /\ result.summary.total_items = 2
    /\ GetErrors.error_count = 1


\* C36 (SpecBatchRuns): when process_batch ends with an error result (empty
\* input, unknown operation, or a fault caught in the controller loop),
\* batch_results, batch_errors and batch_summary are what they were when it
\* was called, and get_summary and get_errors report the previous run's values.
C36_ErrorKeepsPreviousResults ==
    (pc = "done" /\ "error" \in DOMAIN result) =>
        /\ batch_results = previous.batch_results
        /\ batch_errors = previous.batch_errors
        /\ batch_summary = previous.batch_summary
        /\ GetSummary = previous.batch_summary
        /\ GetErrors = [errors |-> previous.batch_errors,
                        error_count |-> Len(previous.batch_errors)]

\* C36 witness: a first run returned a summary with a failed result; the
\* second call ended with the error result of a caught fault, and get_summary
\* and get_errors still report the first run.
C36_Witness ==
    /\ pc = "done"
    /\ previous.runs = 2
    /\ fault # None
    /\ "error" \in DOMAIN result
    /\ GetSummary # EmptyMap
    /\ GetSummary.processed_items = 2
    /\ GetErrors.error_count = 1
    /\ batch_results = previous.batch_results

\* the second call ended with the error result of an empty input after a
\* first run with results
EmptyInputKeepsResults ==
    /\ pc = "done"
    /\ previous.runs = 2
    /\ batch_data = <<>>
    /\ result = [error |-> "No batch data provided"]
    /\ Len(batch_results) = 2

\* the second call ended with the error result of an unknown operation after
\* a first run with results
UnknownOperationKeepsResults ==
    /\ pc = "done"
    /\ previous.runs = 2
    /\ batch_operation \notin ProcessFunctions
    /\ result = [error |-> "Unknown batch operation"]
    /\ Len(batch_results) = 2


\* the step is a get_summary, get_status or get_realtime_feed call
QueryStep ==
    /\ last_op' \in {"get_summary", "get_status", "get_realtime_feed"}
    /\ now' = now

\* the step leaves the store and the session index as they were
StoreUntouched == hook_storage' = hook_storage /\ session_hooks' = session_hooks

\* after the step, list holds what it held before without hooks that are at
\* least retention_minutes old, in the same order
AgedOut(before, after) ==
    /\ after = SelectSeq(before, LAMBDA h : h \in Range(after))
    /\ \A h \in Range(before) :
          h \notin Range(after) => h.timestamp <= now - retention_minutes

\* the step changes the store and the session index only by an age-based
\* cleanup pass, if it runs one
OnlyCleaned ==
    IF PassRuns
    THEN /\ AgedOut(hook_storage, hook_storage')
         /\ DOMAIN session_hooks' \subseteq DOMAIN session_hooks
         /\ \A s \in DOMAIN session_hooks :
               AgedOut(session_hooks[s],
                       IF s \in DOMAIN session_hooks' THEN session_hooks'[s] ELSE <<>>)
    ELSE StoreUntouched

\* the step adds exactly one event: one hook is created, and it is the newest
\* of the store
OneEventAdded ==
    /\ Len(emitted') = Len(emitted) + 1
    /\ hook_storage' # <<>>
    /\ hook_storage'[Len(hook_storage')] = emitted'[Len(emitted')]
    /\ emitted'[Len(emitted')] \notin Range(hook_storage)
    /\ Range(hook_storage') \subseteq Range(hook_storage) \cup {emitted'[Len(emitted')]}

\* what C37 says of the calls that do not emit
QueriesReadOnly ==
    /\ QueryStep => StoreUntouched /\ emitted' = emitted
    /\ (ProcessStep /\ hook_mode \in {"monitor", "filter", "aggregate"}) =>
          OnlyCleaned /\ emitted' = emitted
    /\ (ProcessStep /\ emitted' # emitted) => hook_mode = "emit"

\* C37 as stated (SpecProcess): the query surface is read-only apart from the
\* cleanup pass, and a process_hooks call in emit mode adds exactly one event.
C37_EmitModeAddsOne ==
    [][/\ QueriesReadOnly
       /\ (ProcessStep /\ hook_mode = "emit") => OneEventAdded]_vars

\* C37 (SpecProcess): process_hooks in monitor, filter or aggregate mode and
\* get_summary, get_status and get_realtime_feed never add, remove or reorder
\* stored events or session index entries, apart from the age-based cleanup
\* pass process_hooks may run first; only a process_hooks call in emit mode
\* adds an event: exactly one when it has a hook input, none when it has none.
C37_QuerySurfaceReadOnly ==
    [][/\ QueriesReadOnly
       /\ (ProcessStep /\ EmitRequested) => OneEventAdded
       /\ (ProcessStep /\ hook_mode = "emit" /\ hook_input = EmptyMap) =>
             emitted' = emitted]_vars

\* C37 witness: process_hooks in aggregate mode returned the one session of a
\* store of two hooks, and the store holds every hook emitted so far.
C37_Witness ==
    /\ last_op = "process_hooks"
    /\ hook_mode = "aggregate"
    /\ Len(hook_storage) = 2
    /\ hook_storage = emitted
    /\ DOMAIN returned = {"aggregated_sessions"}
    /\ DOMAIN returned.aggregated_sessions = {"s1"}
    /\ Len(session_hooks["s1"]) = 2

\* process_hooks in monitor mode ran its cleanup pass first and returned
\* what the pass left
MonitorAfterCleanup ==
    /\ last_op = "process_hooks_cleanup"
    /\ hook_mode = "monitor"
    /\ Len(emitted) = 2
    /\ Len(hook_storage) = 1
    /\ returned = [hooks |-> hook_storage]

\* the keys of the Data process_hooks returns
ResultKeys == {"emitted_hook", "hooks", "filtered_hooks", "aggregated_sessions", "error"}

\* the step is a process_hooks call that has nothing to do: emit mode with no
\* hook input, or a mode that is none of the four
NothingToDo ==
    /\ ProcessStep
    /\ \/ hook_mode = "emit" /\ hook_input = EmptyMap
       \/ hook_mode \notin {"monitor", "emit", "filter", "aggregate"}

\* every process_hooks call returns a Data with one of its keys
AlwaysReturns ==
    ProcessStep => \E key \in ResultKeys : DOMAIN returned' = {key}

\* C38 as stated (SpecProcess): process_hooks never raises; in emit mode with
\* no hook input, and in an unknown mode, it emits nothing, leaves the store
\* and the session index unchanged and returns an error result.
C38_NothingToDoLeavesStore ==
    [][/\ AlwaysReturns
       /\ NothingToDo => /\ emitted' = emitted
                         /\ StoreUntouched
                         /\ DOMAIN returned' = {"error"}]_vars

\* C38 (SpecProcess): process_hooks never raises; in emit mode with no hook
\* input, and in an unknown mode, it emits nothing, returns an error result
\* and changes the store and the session index only by the age-based cleanup
\* pass it may run first.
C38_NothingToDoReturnsError ==
    [][/\ AlwaysReturns
       /\ NothingToDo => /\ emitted' = emitted
                         /\ OnlyCleaned
                         /\ DOMAIN returned' = {"error"}]_vars

\* C38 witness: process_hooks in emit mode with no hook input returned an
\* error result; the store holds the two hooks emitted before, and no more.
C38_Witness ==
    /\ last_op = "process_hooks"
    /\ hook_mode = "emit"
    /\ hook_input = EmptyMap
    /\ DOMAIN returned = {"error"}
    /\ Len(emitted) = 2
    /\ hook_storage = emitted

\* process_hooks in an unknown mode ran the cleanup pass, which emptied the
\* store, and returned an error result
UnknownModeCleaned ==
    /\ last_op = "process_hooks_cleanup"
    /\ hook_mode = "other"
    /\ DOMAIN returned = {"error"}
    /\ emitted # <<>>
    /\ hook_storage = <<>>


\* the keys of the cache in the order of their last use, least recent first
PresentByUse == SelectSeq(recency, LAMBDA key : InCache(cache, key))

\* a set call that has started returns
SetTerminates == (cache_pc = "evict") ~> (cache_pc = "idle")

\* between two calls the cache holds at most max_size entries
HoldsAtMostMaxSize == cache_pc = "idle" => Len(cache) <= max_size

\* an eviction removes the least recently used key, and only that key
EvictsLeastRecentlyUsed ==
    stats'.evictions # stats.evictions =>
        /\ PresentByUse # <<>>
        /\ KeysOf(cache') = SelectSeq(KeysOf(cache),
                                      LAMBDA key : key # PresentByUse[1])

\* a successful get or set of a key makes it the last key to be evicted
UseMakesMostRecent ==
    (recency' # recency \/ stats'.hits # stats.hits) =>
        /\ cache' # <<>>
        /\ cache'[Len(cache')].key = recency'[Len(recency')]

\* C39 (as stated): every set call terminates and leaves at most max_size
\* entries in the cache, an eviction removes the least recently used entry,
\* and a successful get or set of a key makes it the most recently used.
C39_BoundedLRU ==
    /\ SetTerminates
    /\ []HoldsAtMostMaxSize
    /\ [][EvictsLeastRecentlyUsed /\ UseMakesMostRecent]_vars

\* what holds of C39: the bound and the order of eviction, whatever max_size is
BoundedAndLeastRecentFirst ==
    /\ []HoldsAtMostMaxSize
    /\ [][EvictsLeastRecentlyUsed /\ UseMakesMostRecent]_vars

\* what holds of C39: with max_size of one or more a set call terminates
SetTerminatesWithRoom ==
    (max_size >= 1 /\ cache_pc = "evict") ~> (cache_pc = "idle")

\* a set on a CacheManager of max_size 0 is in its eviction loop on an empty cache
SetSpinsOnEmptyCache ==
    max_size = 0 /\ cache_pc = "evict" /\ cache = <<>>

\* a key that was read after it was stored outlived the eviction of a key
\* stored after it
ReadKeyOutlivedEviction ==
    /\ cache_pc = "idle"
    /\ stats.evictions = 1
    /\ stats.hits = 1
    /\ KeysOf(cache) = <<"k1", "k3">>

\* every key listed under a tag is cached with that tag, every cached entry is
\* listed under each of its tags, and no tag maps to an empty list
TagIndexConsistent ==
    /\ \A tag \in DOMAIN tag_index :
          /\ tag_index[tag] # <<>>
          /\ \A key \in Range(tag_index[tag]) :
                /\ InCache(cache, key)
                /\ tag \in Range(Entry(cache, key).tags)
    /\ \A i \in DOMAIN cache : \A tag \in Range(cache[i].tags) :
          /\ tag \in DOMAIN tag_index
          /\ cache[i].key \in Range(tag_index[tag])

\* C40: after any sequence of set, get, delete, invalidate_by_tag,
\* invalidate_by_pattern, cleanup_expired and clear calls the tag index is
\* consistent with the cache.
C40_TagIndexConsistent == cache_pc = "idle" => TagIndexConsistent

\* an entry was evicted while an entry that lists tag "a" twice and another
\* entry of tag "a" stayed in the cache
C40_Witness ==
    /\ cache_pc = "idle"
    /\ stats.evictions >= 1
    /\ Len(cache) = 2
    /\ "a" \in DOMAIN tag_index
    /\ Len(tag_index["a"]) = 3


=============================================================================
